---- MODULE Spec2Model ----
(***************************************************************************)
(* Catalog aggregation and synchronisation engine of MOVIE_COUNTDOWN:      *)
(* the Jikan rate limiter, the TVmaze helpers (fetchEpisodes,              *)
(* computeNextEpisode, isFetchStale), the daily refresh of the tracked     *)
(* collection, the airing / popular loaders and addShowFromSearch.         *)
(*                                                                         *)
(* Time is in milliseconds since an arbitrary origin.  A timestamp string  *)
(* is a record [kind, ms, tz]: kind "absent" is null/undefined, "empty" is *)
(* the empty string, "garbage" a string Date.parse rejects, "iso" a string *)
(* that parses to the instant ms (tz tells apart two strings that denote   *)
(* the same instant with different offsets).  An optional object is a      *)
(* sequence of length 0 (null) or 1.                                       *)
(***************************************************************************)
EXTENDS Integers, Sequences, FiniteSets, TLC

VARIABLES now,              \* Date.now()
          pure,             \* inputs and results of the pure helpers
          localShows,       \* chrome.storage.local "shows" (background.js)
          rf,               \* the running refreshAllShows call
          rfLog,            \* per processed show: what the loop met
          requests,         \* episode requests issued by refreshAllShows
          alarmDue,         \* scheduled time of the next refreshShowsDaily alarm
          lastRequestTime,  \* jikanApi.js module variable
          rl,               \* the rateLimitedFetch calls
          dispatched,       \* the fetch() calls made by rateLimitedFetch, in order
          syncShows,        \* chrome.storage.sync "shows" (popup)
          adds,             \* the addShowFromSearch calls
          currentView,        \* "my-shows", "airing" or "popular"
          currentContentType, \* "tv", "anime" or "movies"
          currentGenreFilter, \* the selected genre chip, StrNull for none
          genreCache,         \* jikanApi.js genreCache: "null" or "loaded"
          container,          \* what #shows-container displays
          loads,              \* the loadAndRender* calls in flight, oldest first
          lastLoad,           \* the browse load that completed last
          generation,         \* number of view / type / genre switches so far
          currentPage,        \* popup module variable: pages of cards shown
          edits,              \* togglePriority / onRemoveShow calls in flight
          getGenre,           \* the getGenreId calls and the fills of the cache
          pendingImportData,  \* popup module variable, NULL or the parsed file
          importer,           \* handleFileImport / processImport calls in flight
          fileLog,            \* the handleFileImport call that ended last
          importLog,          \* the processImport call that got the collection last
          sorting,            \* one evaluation of sortShows
          countdown,          \* one evaluation of getCountdownInfo
          ticks             \* number of clock advances so far

vars == <<now, pure, localShows, rf, rfLog, requests, alarmDue,
          lastRequestTime, rl, dispatched, syncShows, adds,
          currentView, currentContentType, currentGenreFilter, genreCache,
          container, loads, lastLoad, generation, pendingImportData, importer,
          fileLog, importLog, sorting, countdown, ticks, currentPage, edits,
          getGenre>>

pureVars == <<pure, sorting, countdown>>
refreshVars == <<localShows, rf, rfLog, requests, alarmDue>>
rlVars == <<lastRequestTime, rl, dispatched>>

addVars == <<syncShows, adds>>
viewVars == <<currentView, currentContentType, currentGenreFilter, genreCache,
              container, loads, lastLoad, generation>>

importVars == <<pendingImportData, importer, fileLog, importLog>>
pageVars == <<currentPage>>
editVars == <<edits>>
genreIdVars == <<getGenre>>

NoEdits == <<>>
NoGenreCalls == [calls |-> <<>>, fills |-> 0]

outsidePure == <<refreshVars, rlVars, addVars, viewVars, importVars, pageVars, editVars, genreIdVars>>
outsideRefresh == <<pureVars, rlVars, addVars, viewVars, importVars, pageVars, editVars, genreIdVars>>
\* the same without storage.sync, which the steps of refreshAllShows that
\* may write frame themselves
outsideRefreshWrite == <<pureVars, rlVars, adds, viewVars, importVars, pageVars,
                         editVars, genreIdVars>>
outsideRl == <<pureVars, refreshVars, addVars, viewVars, importVars, pageVars, editVars, genreIdVars>>
outsideAdd == <<pureVars, refreshVars, rlVars, currentView, currentContentType,
                currentGenreFilter, genreCache, loads, lastLoad, generation,
                importVars, pageVars, editVars, genreIdVars>>
outsideView == <<pureVars, refreshVars, rlVars, adds, importVars, pageVars, editVars, genreIdVars>>
outsideImport == <<pureVars, refreshVars, rlVars, adds, currentView,
                   currentContentType, currentGenreFilter, genreCache, lastLoad,
                   generation, pageVars, editVars, genreIdVars>>

(***************************************************************************)
(* Bounds                                                                  *)
(***************************************************************************)
MaxEpisodes == 3
MaxShows == 2
MaxTicks == 1
MaxCalls == 3
MaxWaits == 3
MaxAdds == 2
MaxSwitches == 2
MaxSorted == 3
MaxEvaluations == 2
MaxFiles == 2
MaxImports == 2
\* the value currentPage is raised to at most
MaxPage == 2
\* the size of the largest tracked collection that is paged
MaxItems == 17

(***************************************************************************)
(* Program constants                                                       *)
(***************************************************************************)
ONE_DAY_MS == 24 * 60 * 60 * 1000

\* part_000 line 57
ITEMS_PER_PAGE == 15

\* the instant the model starts at (any instant later than two days)
T0 == 3 * ONE_DAY_MS

(***************************************************************************)
(* Values                                                                  *)
(***************************************************************************)
NULL == <<>>
Some(x) == <<x>>

Absent == [kind |-> "absent", ms |-> 0, tz |-> 0]
EmptyStr == [kind |-> "empty", ms |-> 0, tz |-> 0]
Garbage == [kind |-> "garbage", ms |-> 0, tz |-> 0]
Iso(t, z) == [kind |-> "iso", ms |-> t, tz |-> z]

\* !x of a string-or-null value
IsFalsy(s) == s.kind \in {"absent", "empty"}

\* a string-or-null field: "" is the empty string
StrNull == "<null>"
StrUndef == "<undefined>"
FalsyStr(x) == x \in {"", StrNull, StrUndef}
\* a || b on string-or-null values
OrStr(a, b) == IF FalsyStr(a) THEN b ELSE a
\* a || b on array-or-null values: an empty array is truthy
OrOpt(a, b) == IF a = <<>> THEN b ELSE a

\* a title: key is the title in lower case, form the way it is written
Title(key, form) == [key |-> key, form |-> form]

\* an image: null, a URL string, or an object with medium / original
ImgNull == [kind |-> "null", url |-> "", medium |-> "", original |-> ""]
ImgStr(u) == [kind |-> "string", url |-> u, medium |-> "", original |-> ""]
ImgObj(m, o) == [kind |-> "object", url |-> "", medium |-> m, original |-> o]
FalsyImg(i) == i.kind = "null" \/ (i.kind = "string" /\ i.url = "")
OrImg(a, b) == IF FalsyImg(a) THEN b ELSE a
\* image.medium || image.original of an object
MediumOrOriginal(i) ==
  IF i.medium # "" THEN ImgStr(i.medium)
  ELSE IF i.original # "" THEN ImgStr(i.original) ELSE ImgNull

\* ids are the namespaced strings "tv:<n>", "wd-<n>", "mal-<n>"
TvId(n) == "tv:" \o ToString(n)
WdId(n) == "wd-" \o ToString(n)
WdIds == { WdId(n) : n \in 1 .. 3 }
JikanIds == { "jikan-" \o ToString(n) : n \in 1 .. 3 }
\* id.startsWith("wd-"), id.startsWith("jikan-")
StartsWithWd(id) == id \in WdIds
StartsWithJikan(id) == id \in JikanIds

NaN == [nan |-> TRUE, v |-> 0]
Num(n) == [nan |-> FALSE, v |-> n]

\* Date.parse: the instant of a well-formed string, NaN for anything else
DateParse(s) == IF s.kind = "iso" THEN Num(s.ms) ELSE NaN

\* new Date(t).toISOString(): always the UTC ("Z") form
toISOString(t) == Iso(t, 0)

\* a > b and a < b on numbers: false as soon as one side is NaN
NumGt(a, b) == ~a.nan /\ ~b.nan /\ a.v > b.v
NumLt(a, b) == ~a.nan /\ ~b.nan /\ a.v < b.v

(***************************************************************************)
(* tvmazeApi.js: isFetchStale                                              *)
(***************************************************************************)
isFetchStale_AtBoundary(lastFetchedAtIso, t) ==
  IF IsFalsy(lastFetchedAtIso) THEN TRUE
  ELSE LET last == DateParse(lastFetchedAtIso) IN
       IF last.nan THEN TRUE ELSE t - last.v >= ONE_DAY_MS

isFetchStale(lastFetchedAtIso, t) ==
  IF IsFalsy(lastFetchedAtIso) THEN TRUE
  ELSE LET last == DateParse(lastFetchedAtIso) IN
       IF last.nan THEN TRUE ELSE t - last.v > ONE_DAY_MS

(***************************************************************************)
(* tvmazeApi.js: computeNextEpisode                                        *)
(***************************************************************************)
\* one iteration of the loop with <= in place of <: the last of several
\* episodes sharing the minimum wins
NextAfter_LastTie(next, ep, t) ==
  IF IsFalsy(ep.airstamp) THEN next
  ELSE LET airTime == DateParse(ep.airstamp) IN
       IF airTime.nan THEN next
       ELSE IF airTime.v > t
               /\ (next = NULL \/ ~NumGt(airTime, DateParse(next[1].airstamp)))
            THEN Some([season |-> ep.season, number |-> ep.number,
                       airstamp |-> ep.airstamp])
            ELSE next

\* one iteration of the loop: next is the best episode so far
NextAfter(next, ep, t) ==
  IF IsFalsy(ep.airstamp) THEN next
  ELSE LET airTime == DateParse(ep.airstamp) IN
       IF airTime.nan THEN next
       ELSE IF airTime.v > t
               /\ (next = NULL \/ NumLt(airTime, DateParse(next[1].airstamp)))
            THEN Some([season |-> ep.season, number |-> ep.number,
                       airstamp |-> ep.airstamp])
            ELSE next

RECURSIVE ScanEpisodes(_, _, _, _)
ScanEpisodes(episodes, k, next, t) ==
  IF k > Len(episodes) THEN next
  ELSE ScanEpisodes(episodes, k + 1, NextAfter(next, episodes[k], t), t)

computeNextEpisode(episodes, t) == ScanEpisodes(episodes, 1, NULL, t)

(***************************************************************************)
(* tvmazeApi.js: fetchEpisodes.  A response is what fetch() produced.      *)
(***************************************************************************)
NetErr == [kind |-> "neterr", ok |-> FALSE, body |-> <<>>]
BadStatus == [kind |-> "http", ok |-> FALSE, body |-> <<>>]
BadJson == [kind |-> "badjson", ok |-> TRUE, body |-> <<>>]
OkJson(b) == [kind |-> "http", ok |-> TRUE, body |-> b]
\* the log entry of a show for which fetch() was never called
NoRequest == [kind |-> "none", ok |-> FALSE, body |-> <<>>]

\* the settled promise: threw, or the value it resolved to
fetchEpisodes(resp) ==
  IF resp.kind = "neterr" THEN [threw |-> TRUE, value |-> <<>>]
  ELSE IF ~resp.ok THEN [threw |-> FALSE, value |-> <<>>]
  ELSE IF resp.kind = "badjson" THEN [threw |-> TRUE, value |-> <<>>]
  ELSE [threw |-> FALSE, value |-> resp.body]

(***************************************************************************)
(* Inputs of the pure helpers                                              *)
(***************************************************************************)
Ep(s, n, a) == [season |-> s, number |-> n, airstamp |-> a]

EpisodeInputs ==
  { Ep(1, 1, Absent), Ep(1, 2, Garbage), Ep(1, 3, Iso(T0 - 1000, 0)),
    Ep(1, 4, Iso(T0, 0)), Ep(2, 1, Iso(T0 + 2000, 0)),
    Ep(2, 2, Iso(T0 + 1000, 0)), Ep(2, 3, Iso(T0 + 1000, 1)),
    Ep(2, 4, EmptyStr) }

RECURSIVE SeqsUpTo(_, _)
SeqsUpTo(S, n) ==
  IF n = 0 THEN {<<>>}
  ELSE LET shorter == SeqsUpTo(S, n - 1) IN
       shorter \cup {Append(q, x) : q \in {r \in shorter : Len(r) = n - 1}, x \in S}

StampInputs ==
  { Absent, EmptyStr, Garbage,
    Iso(T0 - ONE_DAY_MS - 1, 0), Iso(T0 - ONE_DAY_MS, 0),
    Iso(T0 - ONE_DAY_MS + 1, 0), Iso(T0, 0), Iso(T0 + 5, 0),
    Iso(T0 - 2 * ONE_DAY_MS, 1) }

PureInit ==
  /\ pure \in [op : {"input"}, lastFetchedAt : StampInputs,
               episodes : SeqsUpTo(EpisodeInputs, MaxEpisodes),
               stale : {FALSE}, next : {NULL}]

\* isFetchStale(lastFetchedAt) is evaluated
PureIsStale ==
  /\ pure.op = "input"
  /\ pure' = [pure EXCEPT !.op = "isFetchStale",
                          !.stale = isFetchStale(pure.lastFetchedAt, now)]
  /\ UNCHANGED <<now, ticks, sorting, countdown>> /\ UNCHANGED outsidePure

\* computeNextEpisode(episodes) is evaluated
PureComputeNext ==
  /\ pure.op = "input"
  /\ pure' = [pure EXCEPT !.op = "computeNextEpisode",
                          !.next = computeNextEpisode(pure.episodes, now)]
  /\ UNCHANGED <<now, ticks, sorting, countdown>> /\ UNCHANGED outsidePure

(***************************************************************************)
(* background.js: refreshAllShows                                          *)
(***************************************************************************)
UserDefaults ==
  [priority |-> FALSE, watchLink |-> "", watched |-> FALSE, watchedAt |-> Absent]
UserChoices ==
  [priority |-> TRUE, watchLink |-> "https://w", watched |-> TRUE,
   watchedAt |-> Iso(T0 - 500, 0)]

\* a stored show: the fields addShowFromSearch writes, and the two the
\* user sets later (priority, watchLink; FALSE and "" while unset)
StoredShow(id, name, image, genres, status, summary, ne, last, ctype, u) ==
  [id |-> id, name |-> name, image |-> image, genres |-> genres,
   status |-> status, summary |-> summary, nextEpisode |-> ne,
   allEpisodesLastFetchedAt |-> last, watched |-> u.watched,
   watchedAt |-> u.watchedAt, contentType |-> ctype,
   priority |-> u.priority, watchLink |-> u.watchLink]

TrackedShow(id, last, ne, u) ==
  StoredShow(id, Title("show", "Show"), ImgStr("https://i"), Some(<<"Drama">>),
             "Running", "text", ne, last, "tv", u)

\* the tracked shows a collection is drawn from: never fetched, with an
\* unparsable fetch time, fetched exactly a day ago, and just fetched
ShowInputs(n) ==
  { TrackedShow(TvId(n), Absent, NULL, UserDefaults),
    TrackedShow(TvId(n), Garbage, Some(Ep(1, 3, Iso(T0 - 1000, 0))), UserChoices),
    TrackedShow(TvId(n), Iso(T0 - ONE_DAY_MS, 0),
                Some(Ep(2, 1, Iso(T0 + 2000, 0))), UserChoices),
    TrackedShow(TvId(n), Iso(T0, 0), NULL, UserDefaults) }

\* the collections of at most n shows; the show at position i has id tv:i
RECURSIVE Collections(_)
Collections(n) ==
  IF n = 0 THEN {<<>>}
  ELSE LET shorter == Collections(n - 1) IN
       shorter \cup
       { Append(q, s) : q \in {r \in shorter : Len(r) = n - 1}, s \in ShowInputs(n) }

DistinctIds(shows) ==
  \A i, j \in 1 .. Len(shows) : shows[i].id = shows[j].id => i = j

EpisodeResponses ==
  { NetErr, BadStatus, BadJson, OkJson(<<>>),
    OkJson(<<Ep(1, 3, Iso(T0 - 1000, 0)), Ep(2, 1, Iso(T0 + 2 * ONE_DAY_MS, 0)),
             Ep(2, 2, Iso(T0 + 2 * ONE_DAY_MS, 1))>>) }

\* part_001 line 36: the request is /shows/<id>/episodes; TVmaze keeps its
\* shows under numbers, so the request for a Wikidata id (a movie) ends in
\* a 404 or fails, whereas a TVmaze id may get any of the answers
EpisodeAnswersFor(id) ==
  IF StartsWithWd(id) THEN {NetErr, BadStatus}
  ELSE EpisodeResponses

\* line 31: the branch that decides whether the show is re-fetched
NeedsFetch_Always(show, t) == TRUE

NeedsFetch(show, t) == isFetchStale(show.allEpisodesLastFetchedAt, t)

\* lines 28 and 47-49: the copy that is pushed when nothing was fetched
KeptShow(show) ==
  [show EXCEPT !.watched = show.watched, !.watchedAt = show.watchedAt]

\* the refreshed record rebuilt from the catalog fields only
RefreshedShow_DropsUserFields(show, episodes, t) ==
  [show EXCEPT !.nextEpisode = computeNextEpisode(episodes, t),
               !.allEpisodesLastFetchedAt = toISOString(t),
               !.priority = FALSE, !.watchLink = ""]

\* the refreshed record that keeps the old fetch time
RefreshedShow_KeepsFetchTime(show, episodes, t) ==
  [show EXCEPT !.nextEpisode = computeNextEpisode(episodes, t)]

\* lines 37-42 and 47-49: the record pushed after a successful fetch
RefreshedShow(show, episodes, t) ==
  [show EXCEPT !.nextEpisode = computeNextEpisode(episodes, t),
               !.allEpisodesLastFetchedAt = toISOString(t),
               !.watched = show.watched, !.watchedAt = show.watchedAt]

\* the for loop from show i on, up to its next await: every fresh show is
\* pushed unchanged; the result is the position of the first stale show
\* (or Len + 1), the collection built so far and the log of the skipped ones
RECURSIVE RunLoop(_, _, _, _, _)
RunLoop(shows, i, updated, log, t) ==
  IF i > Len(shows) THEN [i |-> i, updated |-> updated, log |-> log]
  ELSE IF NeedsFetch(shows[i], t) THEN [i |-> i, updated |-> updated, log |-> log]
  ELSE RunLoop(shows, i + 1, Append(updated, KeptShow(shows[i])),
               Append(log, [resp |-> NoRequest, fetched |-> FALSE, at |-> t]), t)

IdleRf == [pc |-> "idle", shows |-> <<>>, i |-> 0, updated |-> <<>>]

RefreshInit ==
  /\ localShows \in {c \in Collections(MaxShows) : DistinctIds(c)}
  /\ rf = IdleRf
  /\ rfLog = <<>>
  /\ requests = <<>>
  /\ alarmDue = T0

\* a loop that issues the request of the following show together with
\* the request of show i
AfterLoop_FetchesAhead(shows, r) ==
  IF r.i > Len(shows)
  THEN /\ rf' = [pc |-> "set", shows |-> shows, i |-> r.i,
                 updated |-> r.updated]
       /\ localShows' = r.updated
       /\ syncShows' = syncShows
       /\ requests' = requests
       /\ rfLog' = r.log
  ELSE /\ rf' = [pc |-> "fetch", shows |-> shows, i |-> r.i,
                 updated |-> r.updated]
       /\ localShows' = localShows
       /\ syncShows' = syncShows
       /\ requests' =
            IF r.i < Len(shows)
            THEN requests \o << [idx |-> r.i, id |-> shows[r.i].id],
                                [idx |-> r.i + 1, id |-> shows[r.i + 1].id] >>
            ELSE Append(requests, [idx |-> r.i, id |-> shows[r.i].id])
       /\ rfLog' = r.log

\* a run that writes only the shows that have a next episode
AfterLoop_WritesAiringOnly(shows, r) ==
  IF r.i > Len(shows)
  THEN /\ rf' = [pc |-> "set", shows |-> shows, i |-> r.i,
                 updated |-> r.updated]
       /\ localShows' = SelectSeq(r.updated, LAMBDA s : s.nextEpisode # NULL)
       /\ syncShows' = syncShows
       /\ requests' = requests
       /\ rfLog' = r.log
  ELSE /\ rf' = [pc |-> "fetch", shows |-> shows, i |-> r.i,
                 updated |-> r.updated]
       /\ localShows' = localShows
       /\ syncShows' = syncShows
       /\ requests' = Append(requests, [idx |-> r.i, id |-> shows[r.i].id])
       /\ rfLog' = r.log

\* a run that writes its collection to the storage area of the popup
AfterLoop_WritesSync(shows, r) ==
  IF r.i > Len(shows)
  THEN /\ rf' = [pc |-> "set", shows |-> shows, i |-> r.i,
                 updated |-> r.updated]
       /\ localShows' = localShows
       /\ syncShows' = r.updated
       /\ requests' = requests
       /\ rfLog' = r.log
  ELSE /\ rf' = [pc |-> "fetch", shows |-> shows, i |-> r.i,
                 updated |-> r.updated]
       /\ localShows' = localShows
       /\ syncShows' = syncShows
       /\ requests' = Append(requests, [idx |-> r.i, id |-> shows[r.i].id])
       /\ rfLog' = r.log

\* after the loop has run to its next await: a fetch is issued, or the
\* loop is over and storage.local.set is called with the collection
AfterLoop(shows, r) ==
  IF r.i > Len(shows)
  THEN /\ rf' = [pc |-> "set", shows |-> shows, i |-> r.i,
                 updated |-> r.updated]
       /\ localShows' = r.updated
       /\ syncShows' = syncShows
       /\ requests' = requests
       /\ rfLog' = r.log
  ELSE /\ rf' = [pc |-> "fetch", shows |-> shows, i |-> r.i,
                 updated |-> r.updated]
       /\ localShows' = localShows
       /\ syncShows' = syncShows
       /\ requests' = Append(requests, [idx |-> r.i, id |-> shows[r.i].id])
       /\ rfLog' = r.log

\* lines 7-17: the periodic alarm (one period after the previous one, or
\* later) calls refreshAllShows, which starts with storage.local.get
ALARM_PERIOD_MS == 60 * 24 * 60 * 1000

AlarmFires ==
  /\ rf.pc = "idle"
  /\ now >= alarmDue
  /\ alarmDue' = alarmDue + ALARM_PERIOD_MS
  /\ rf' = [rf EXCEPT !.pc = "get", !.shows = <<>>, !.updated = <<>>, !.i = 0]
  /\ rfLog' = <<>>
  /\ requests' = <<>>
  /\ UNCHANGED <<now, ticks, localShows>> /\ UNCHANGED outsideRefresh

\* storage.local.get resolves: empty collection returns, else the loop runs
RefreshGet ==
  /\ rf.pc = "get"
  /\ IF Len(localShows) = 0
     THEN /\ rf' = [rf EXCEPT !.pc = "idle"]
          /\ UNCHANGED <<localShows, requests, rfLog, syncShows>>
     ELSE AfterLoop(localShows, RunLoop(localShows, 1, <<>>, <<>>, now))
  /\ UNCHANGED <<now, ticks, alarmDue>> /\ UNCHANGED outsideRefreshWrite

\* the episode request of show i settles and the loop goes on
RefreshFetchSettles ==
  /\ rf.pc = "fetch"
  /\ \E resp \in EpisodeAnswersFor(rf.shows[rf.i].id) :
       LET show == rf.shows[rf.i]
           res == fetchEpisodes(resp)
           updatedShow == IF res.threw THEN KeptShow(show)
                          ELSE RefreshedShow(show, res.value, now)
           entry == [resp |-> resp, fetched |-> TRUE, at |-> now]
       IN AfterLoop(rf.shows,
                    RunLoop(rf.shows, rf.i + 1, Append(rf.updated, updatedShow),
                            Append(rfLog, entry), now))
  /\ UNCHANGED <<now, ticks, alarmDue>> /\ UNCHANGED outsideRefreshWrite

\* storage.local.set resolves and refreshAllShows returns
RefreshSetDone ==
  /\ rf.pc = "set"
  /\ rf' = [rf EXCEPT !.pc = "idle"]
  /\ UNCHANGED <<now, ticks, localShows, rfLog, requests, alarmDue>> /\ UNCHANGED outsideRefresh

\* time passes while the refresh waits for the catalog or for the alarm
RefreshTick ==
  /\ rf.pc \in {"idle", "fetch"}
  /\ ticks < MaxTicks
  /\ \E d \in {1, ONE_DAY_MS} : now' = now + d
  /\ ticks' = ticks + 1
  /\ UNCHANGED refreshVars /\ UNCHANGED outsideRefresh

(***************************************************************************)
(* jikanApi.js: rateLimitedFetch                                           *)
(***************************************************************************)
\* MIN_REQUEST_INTERVAL = 1000 / 3 ms is not an integer: the model keeps
\* three times its value and compares 3 * t with it
MIN_REQUEST_INTERVAL_X3 == 1000

\* line 11: timeSinceLastRequest < MIN_REQUEST_INTERVAL
TooSoon(timeSinceLastRequest) == 3 * timeSinceLastRequest < MIN_REQUEST_INTERVAL_X3

\* line 13: the delay handed to setTimeout, which keeps its integer part
TimerDelay(timeSinceLastRequest) ==
  (MIN_REQUEST_INTERVAL_X3 - 3 * timeSinceLastRequest) \div 3

\* lines 19-29: what the call resolves to ("null" or the parsed body)
rateLimitedFetchResult(resp) ==
  IF resp.kind = "neterr" THEN "null"
  ELSE IF ~resp.ok THEN "null"
  ELSE IF resp.kind = "badjson" THEN "null"
  ELSE "data"

JikanResponses == { NetErr, BadStatus, BadJson, OkJson(<<>>) }

Calls == 1 .. MaxCalls

\* release is the time the call computed for its dispatch (its own time of
\* entry when it did not have to wait)
NotCalled == [pc |-> "idle", wake |-> 0, result |-> "none", release |-> 0]

RlInit ==
  /\ lastRequestTime = 0
  /\ rl = [c \in Calls |-> NotCalled]
  /\ dispatched = <<>>

\* lines 8-17: a call arrives; it either goes to sleep or is dispatched
\* at once (no await lies between reading and writing lastRequestTime).
\* The calls are numbered in the order they arrive
RlCall(c) ==
  /\ rl[c].pc = "idle"
  /\ \A b \in Calls : b < c => rl[b].pc # "idle"
  /\ LET timeSinceLastRequest == now - lastRequestTime IN
     IF TooSoon(timeSinceLastRequest)
     THEN /\ rl' = [rl EXCEPT ![c] = [pc |-> "waiting",
                                      wake |-> now + TimerDelay(timeSinceLastRequest),
                                      result |-> "none",
                                      release |-> now + TimerDelay(timeSinceLastRequest)]]
          /\ UNCHANGED <<lastRequestTime, dispatched>>
     ELSE /\ rl' = [rl EXCEPT ![c] = [pc |-> "fetching", wake |-> 0, result |-> "none",
                                      release |-> now]]
          /\ lastRequestTime' = now
          /\ dispatched' = Append(dispatched, [call |-> c, at |-> now])
  /\ UNCHANGED <<now, ticks>> /\ UNCHANGED outsideRl

\* a timer that may fire before its delay has passed
RlTimerFires_Early(c) ==
  /\ rl[c].pc = "waiting"
  /\ rl' = [rl EXCEPT ![c].pc = "fetching", ![c].wake = 0]
  /\ lastRequestTime' = now
  /\ dispatched' = Append(dispatched, [call |-> c, at |-> now])
  /\ UNCHANGED <<now, ticks>> /\ UNCHANGED outsideRl

\* lines 12-20: the timer of a sleeping call fires (on time or late) and
\* the call is dispatched
RlTimerFires(c) ==
  /\ rl[c].pc = "waiting"
  /\ now >= rl[c].wake
  /\ rl' = [rl EXCEPT ![c].pc = "fetching", ![c].wake = 0]
  /\ lastRequestTime' = now
  /\ dispatched' = Append(dispatched, [call |-> c, at |-> now])
  /\ UNCHANGED <<now, ticks>> /\ UNCHANGED outsideRl

\* ---------------------------------------------------------------------------
\* rateLimitedFetch called again only after the call before has returned
\* ---------------------------------------------------------------------------
\* a call whose failed request clears lastRequestTime
RlSettles_ClearsOnFailure(c) ==
  /\ rl[c].pc = "fetching"
  /\ \E resp \in JikanResponses :
       /\ rl' = [rl EXCEPT ![c].pc = "done",
                           ![c].result = rateLimitedFetchResult(resp)]
       /\ lastRequestTime' = IF rateLimitedFetchResult(resp) = "null" THEN 0
                             ELSE lastRequestTime
  /\ UNCHANGED <<now, ticks, dispatched>> /\ UNCHANGED outsideRl

\* lines 20-29: the request settles
RlSettles(c) ==
  /\ rl[c].pc = "fetching"
  /\ \E resp \in JikanResponses :
       rl' = [rl EXCEPT ![c].pc = "done",
                        ![c].result = rateLimitedFetchResult(resp)]
  /\ UNCHANGED <<now, ticks, lastRequestTime, dispatched>> /\ UNCHANGED outsideRl

\* time passes
RlTick ==
  /\ ticks < MaxWaits
  /\ \E d \in {1, 333} : now' = now + d
  /\ ticks' = ticks + 1
  /\ UNCHANGED rlVars /\ UNCHANGED outsideRl

(***************************************************************************)
(* The catalogs the popup talks to                                         *)
(***************************************************************************)
\* a TVmaze show as the API returns it
TvShow(id, name, imdb, genres, status, summary, image) ==
  [id |-> id, name |-> name, imdb |-> imdb, genres |-> genres,
   status |-> status, summary |-> summary, image |-> image]

TvDark == TvShow(TvId(1), Title("dark", "Dark"), "tt1", Some(<<"Drama", "Mystery">>),
                 "Ended", "<p>time travel</p>", ImgObj("https://m1", "https://o1"))
TvLost == TvShow(TvId(2), Title("lost", "Lost"), "", Some(<<>>), StrNull, StrNull, ImgNull)
TvNaruto == TvShow(TvId(3), Title("naruto", "Naruto"), "tt3", Some(<<"Action">>),
                   "Running", "<p>ninja</p>", ImgObj("https://m3", "https://o3"))
TvBleach == TvShow(TvId(4), Title("bleach", "Bleach"), "", Some(<<>>), StrNull, StrNull,
                   ImgNull)
TvHeat == TvShow(TvId(5), Title("heat", "Heat"), "tt5", Some(<<"Crime">>), "Ended",
                 "<b>heist</b>", ImgObj("", "https://o5"))

TvCatalog == { TvDark, TvLost, TvNaruto, TvBleach, TvHeat }

\* text.replace(/<[^>]+>/g, "")
StripTags(text) ==
  CASE text = "<p>time travel</p>" -> "time travel"
    [] text = "<p>ninja</p>" -> "ninja"
    [] text = "<b>heist</b>" -> "heist"
    [] OTHER -> text

\* typeof x === "string"
IsString(x) == x \notin {StrNull, StrUndef}

\* tvmazeApi.js fetchShow: the show with that id, null when the catalog
\* has none or cannot be reached
fetchShow(id, up) ==
  IF up /\ \E tv \in TvCatalog : tv.id = id
  THEN Some(CHOOSE tv \in TvCatalog : tv.id = id)
  ELSE NULL

\* what fetchAnimeDetails resolves to
JikanDetails(genres, status, synopsis, image) ==
  [genres |-> genres, status |-> status, synopsis |-> synopsis, image |-> image]

JikanDetailAnswers ==
  { NULL,
    Some(JikanDetails(Some(<<"Shounen">>), "Currently Airing", "ninja anime",
                      ImgStr("https://j20"))),
    Some(JikanDetails(Some(<<>>), StrNull, "", ImgNull)) }

(***************************************************************************)
(* popup: sortShows                                                        *)
(***************************************************************************)
\* name.localeCompare: the names the model uses, in collation order (a
\* lower-case letter sorts before its upper-case form)
Collation == <<"Bleach", "dark", "Dark", "Lost">>

Sign(n) == IF n < 0 THEN -1 ELSE IF n > 0 THEN 1 ELSE 0

localeCompare(a, b) ==
  LET pos(x) == CHOOSE k \in 1 .. Len(Collation) : Collation[k] = x.form
  IN Sign(pos(a) - pos(b))

Infinity == [nan |-> FALSE, v |-> -1, inf |-> TRUE]

\* lines 1830-1831: show.nextEpisode?.airstamp ? Date.parse(airstamp) : Infinity
SortTime(show) ==
  IF show.nextEpisode = NULL \/ IsFalsy(show.nextEpisode[1].airstamp)
  THEN Infinity
  ELSE LET t == DateParse(show.nextEpisode[1].airstamp)
       IN [nan |-> t.nan, v |-> t.v, inf |-> FALSE]

\* ta - tb, as the sort takes it: NaN (Infinity - Infinity, or an
\* unparsable airstamp on either side) counts as 0
Minus(ta, tb) ==
  IF ta.nan \/ tb.nan \/ (ta.inf /\ tb.inf) THEN 0
  ELSE IF ta.inf THEN 1
  ELSE IF tb.inf THEN -1
  ELSE Sign(ta.v - tb.v)

\* show.priority as a condition: a card of a browse view has no such member
Pinned(show) == "priority" \in DOMAIN show /\ show.priority

\* a comparator that looks at the priority flag in mode soonest only
SortCompare_ModeFirst(a, b, mode) ==
  IF mode = "alpha" THEN localeCompare(a.name, b.name)
  ELSE IF Pinned(a) /\ ~Pinned(b) THEN -1
  ELSE IF ~Pinned(a) /\ Pinned(b) THEN 1
  ELSE Minus(SortTime(a), SortTime(b))

\* lines 1820-1833: the comparator handed to copy.sort
SortCompare(a, b, mode) ==
  IF Pinned(a) /\ ~Pinned(b) THEN -1
  ELSE IF ~Pinned(a) /\ Pinned(b) THEN 1
  ELSE IF mode = "alpha" THEN localeCompare(a.name, b.name)
  ELSE Minus(SortTime(a), SortTime(b))

\* Array.prototype.sort of the engine, for arrays shorter than 64: the
\* run the array starts with (reversed when strictly descending) ...
RECURSIVE RunEnd(_, _, _, _)
RunEnd(q, idx, descending, mode) ==
  IF idx > Len(q) THEN idx - 1
  ELSE LET order == SortCompare(q[idx], q[idx - 1], mode) IN
       IF (descending /\ order >= 0) \/ (~descending /\ order < 0) THEN idx - 1
       ELSE RunEnd(q, idx + 1, descending, mode)

Reversed(q, n) == [i \in 1 .. Len(q) |-> IF i <= n THEN q[n + 1 - i] ELSE q[i]]

\* ... then every later element is put into the sorted part by a binary
\* search that goes right on "equal"
RECURSIVE InsertionPoint(_, _, _, _, _)
InsertionPoint(q, pivot, left, right, mode) ==
  IF left >= right THEN left
  ELSE LET mid == left + (right - left) \div 2 IN
       IF SortCompare(pivot, q[mid], mode) < 0
       THEN InsertionPoint(q, pivot, left, mid, mode)
       ELSE InsertionPoint(q, pivot, mid + 1, right, mode)

RECURSIVE BinaryInsertionSort(_, _, _)
BinaryInsertionSort(q, start, mode) ==
  IF start > Len(q) THEN q
  ELSE LET at == InsertionPoint(q, q[start], 1, start, mode)
           moved == [i \in 1 .. Len(q) |->
                       IF i < at \/ i > start THEN q[i]
                       ELSE IF i = at THEN q[start] ELSE q[i - 1]]
       IN BinaryInsertionSort(moved, start + 1, mode)

\* lines 1816-1837
sortShows(shows, mode) ==
  IF Len(shows) < 2 THEN shows
  ELSE LET descending == SortCompare(shows[2], shows[1], mode) < 0
           run == RunEnd(shows, 3, descending, mode)
       IN BinaryInsertionSort(IF descending THEN Reversed(shows, run) ELSE shows,
                              run + 1, mode)

(***************************************************************************)
(* popup: addShowFromSearch                                                *)
(***************************************************************************)
\* what a search result or a browse card hands to addShowFromSearch
Summary(id, name, genres, status, summary, image, ne, ctype, malId) ==
  [id |-> id, name |-> name, genres |-> genres, status |-> status,
   summary |-> summary, image |-> image, nextEpisode |-> ne,
   contentType |-> ctype, malId |-> malId]

NoSummary == Summary("", Title("", ""), NULL, StrUndef, StrUndef, ImgNull, NULL, StrUndef, 0)

AddSummaries ==
  { Summary(TvId(1), Title("dark", "Dark"), Some(<<"Drama">>), "Running", StrUndef,
            ImgStr("https://s1"), NULL, StrUndef, 0),
    Summary(TvId(2), Title("lost", "Lost"), Some(<<"Adventure">>), "Running", "island",
            ImgStr("https://s2"), Some(Ep(1, 1, Iso(T0 + 1000, 0))), "tv", 0),
    Summary(TvId(3), Title("naruto", "Naruto"), Some(<<"Action">>), "Running", "ninja",
            ImgStr("https://m3"), Some(Ep(5, 2, Iso(T0 + 1000, 0))), "anime", 20),
    Summary(WdId(1), Title("heat", "Heat"), Some(<<>>), StrNull, "", ImgNull, NULL,
            "movies", 0) }

\* lines 2068-2076: the fields before any catalog is asked
AddStart(s) ==
  [contentType |-> OrStr(s.contentType, "tv"),
   nextEpisode |-> s.nextEpisode,
   fetchedAt |-> Absent,
   genres |-> IF s.genres = NULL THEN Some(<<>>) ELSE s.genres,
   status |-> OrStr(s.status, StrNull),
   summary |-> OrStr(s.summary, ""),
   image |-> OrImg(s.image, ImgNull)]

NoMerge == AddStart(NoSummary)

\* lines 2082-2087: the Jikan details go first
WithJikan(m, j) ==
  [m EXCEPT !.genres = OrOpt(j.genres, m.genres),
            !.status = OrStr(j.status, m.status),
            !.summary = OrStr(j.synopsis, m.summary),
            !.image = OrImg(j.image, m.image)]

\* a TVmaze step that takes the image of the TVmaze record and nothing else
WithTvmaze_ImageFromInfoOnly(m, info, episodes, t) ==
  LET base == [m EXCEPT !.nextEpisode = computeNextEpisode(episodes, t),
                        !.fetchedAt = toISOString(t)]
  IN IF info = NULL THEN base
     ELSE LET showInfo == info[1]
          IN [base EXCEPT
                !.genres = IF showInfo.genres # NULL /\ Len(showInfo.genres[1]) > 0
                           THEN showInfo.genres ELSE m.genres,
                !.status = OrStr(showInfo.status, m.status),
                !.summary = IF IsString(showInfo.summary)
                            THEN StripTags(showInfo.summary) ELSE m.summary,
                !.image = IF showInfo.image.kind = "object"
                          THEN MediumOrOriginal(showInfo.image) ELSE ImgNull]

\* lines 2095-2109 and 2119-2133: the TVmaze show and its episodes
WithTvmaze(m, info, episodes, t) ==
  LET base == [m EXCEPT !.nextEpisode = computeNextEpisode(episodes, t),
                        !.fetchedAt = toISOString(t)]
  IN IF info = NULL THEN base
     ELSE LET showInfo == info[1]
              imageFromInfo == IF showInfo.image.kind = "object"
                               THEN MediumOrOriginal(showInfo.image) ELSE ImgNull
          IN [base EXCEPT
                !.genres = IF showInfo.genres # NULL /\ Len(showInfo.genres[1]) > 0
                           THEN showInfo.genres ELSE m.genres,
                !.status = OrStr(showInfo.status, m.status),
                !.summary = IF IsString(showInfo.summary)
                            THEN StripTags(showInfo.summary) ELSE m.summary,
                !.image = OrImg(imageFromInfo, m.image)]

\* a new show that keeps the episode the summary came with
NewShow_KeepsSummaryEpisode(s, m) ==
  StoredShow(s.id, s.name, m.image, m.genres, m.status, m.summary,
             IF s.nextEpisode # NULL THEN s.nextEpisode ELSE m.nextEpisode,
             m.fetchedAt, m.contentType, UserDefaults)

\* lines 2142-2154
NewShow(s, m) ==
  StoredShow(s.id, s.name, m.image, m.genres, m.status, m.summary, m.nextEpisode,
             m.fetchedAt, m.contentType, UserDefaults)

AddResponses == { NetErr, BadStatus,
                  OkJson(<<Ep(1, 3, Iso(T0 - 1000, 0)), Ep(2, 1, Iso(T0 + 5000, 0))>>) }

AddIds == 1 .. MaxAdds

\* jikan, info and episodes keep what fetchAnimeDetails, fetchShow and
\* fetchEpisodes resolved to
NotAdding == [pc |-> "idle", summary |-> NoSummary, shows |-> <<>>, m |-> NoMerge,
              wrote |-> FALSE, jikan |-> NULL, info |-> NULL, episodes |-> NULL]

AddInit ==
  /\ syncShows \in { <<>>,
                     << StoredShow(TvId(1), Title("dark", "Dark"), ImgStr("https://m1"),
                                   Some(<<"Drama">>), "Ended", "time travel", NULL,
                                   Iso(T0 - 1000, 0), "tv", UserChoices) >> }
  /\ adds = [a \in AddIds |-> NotAdding]

\* what the container displays: shows is the collection handed to the
\* renderer, cards the shows that got a card, loadMore whether the Load
\* More button was appended, page the value of currentPage at that time
Empty == [kind |-> "empty", text |-> "", shows |-> <<>>, gen |-> 0, renderedIn |-> "",
          page |-> 0, cards |-> <<>>, loadMore |-> FALSE]
\* container.innerHTML = "<div ...>text</div>"
Message(text, gen) ==
  [kind |-> "message", text |-> text, shows |-> <<>>, gen |-> gen, renderedIn |-> "",
   page |-> 0, cards |-> <<>>, loadMore |-> FALSE]

\* line 47: the sort select is left at its initial value
currentSortMode == "soonest"

\* a renderer that shows the current page alone
Rendered_PageWindow(shows, gen, view) ==
  LET ordered == IF view = "my-shows" THEN sortShows(shows, currentSortMode) ELSE shows
      startIndex == (currentPage - 1) * ITEMS_PER_PAGE
      endIndex == currentPage * ITEMS_PER_PAGE
  IN [kind |-> "list", text |-> "", shows |-> shows, gen |-> gen, renderedIn |-> view,
      page |-> currentPage,
      cards |-> SubSeq(ordered, startIndex + 1,
                       IF endIndex < Len(ordered) THEN endIndex ELSE Len(ordered)),
      loadMore |-> Len(ordered) > endIndex /\ view = "my-shows"]

\* lines 1399-1435: renderShows(container, shows) while the view is view
Rendered(shows, gen, view) ==
  LET ordered == IF view = "my-shows" THEN sortShows(shows, currentSortMode) ELSE shows
      endIndex == currentPage * ITEMS_PER_PAGE
      paginatedShows == SubSeq(ordered, 1,
                               IF endIndex < Len(ordered) THEN endIndex
                               ELSE Len(ordered))
      hasMore == Len(ordered) > endIndex
  IN [kind |-> "list", text |-> "", shows |-> shows, gen |-> gen, renderedIn |-> view,
      page |-> currentPage, cards |-> paginatedShows,
      loadMore |-> hasMore /\ view = "my-shows"]

\* line 2156-2157: storage.sync.set({shows: [...shows, newShow]}) is called
AddWrites(a, m, jikanData, info, episodes) ==
  /\ syncShows' = Append(adds[a].shows, NewShow(adds[a].summary, m))
  /\ adds' = [adds EXCEPT ![a].pc = "set", ![a].m = m, ![a].wrote = TRUE,
                          ![a].jikan = jikanData, ![a].info = info,
                          ![a].episodes = episodes]

\* line 2057-2058: the user picks a summary; storage.sync.get is issued
AddCall(a) ==
  /\ adds[a].pc = "idle"
  /\ \A b \in AddIds : b < a => adds[b].pc # "idle"
  /\ \E s \in AddSummaries :
       adds' = [adds EXCEPT ![a] = [NotAdding EXCEPT !.pc = "get", !.summary = s]]
  /\ UNCHANGED <<now, ticks, syncShows, container>> /\ UNCHANGED outsideAdd

\* an add that does not look for the id in the collection it read
AddGot_NoTrackedTest(a) ==
  /\ adds[a].pc = "get"
  /\ LET s == adds[a].summary
         shows == syncShows
         m == AddStart(s)
     IN IF m.contentType = "anime" /\ s.malId # 0
        THEN /\ adds' = [adds EXCEPT ![a].pc = "jikan", ![a].shows = shows, ![a].m = m]
             /\ UNCHANGED <<syncShows, container>>
        ELSE IF m.contentType = "tv" /\ ~StartsWithWd(s.id)
        THEN /\ adds' = [adds EXCEPT ![a].pc = "tvmaze", ![a].shows = shows, ![a].m = m]
             /\ UNCHANGED <<syncShows, container>>
        ELSE /\ syncShows' =
                  Append(shows,
                         NewShow(s, IF m.contentType = "movies"
                                    THEN [m EXCEPT !.fetchedAt = toISOString(now)]
                                    ELSE m))
             /\ adds' = [adds EXCEPT ![a].pc = "set", ![a].shows = shows,
                                     ![a].wrote = TRUE,
                                     ![a].m = IF m.contentType = "movies"
                                              THEN [m EXCEPT !.fetchedAt = toISOString(now)]
                                              ELSE m]
             /\ UNCHANGED container
  /\ UNCHANGED <<now, ticks>> /\ UNCHANGED outsideAdd

\* lines 2058-2137: the stored collection arrives
AddGot(a) ==
  /\ adds[a].pc = "get"
  /\ LET s == adds[a].summary
         shows == syncShows
         m == AddStart(s)
     IN IF \E i \in 1 .. Len(shows) : shows[i].id = s.id
        THEN /\ adds' = [adds EXCEPT ![a].pc = "done", ![a].shows = shows]
             /\ container' = Rendered(shows, generation, currentView)
             /\ UNCHANGED syncShows
        ELSE IF m.contentType = "anime" /\ s.malId # 0
        THEN /\ adds' = [adds EXCEPT ![a].pc = "jikan", ![a].shows = shows, ![a].m = m]
             /\ UNCHANGED <<syncShows, container>>
        ELSE IF m.contentType = "tv" /\ ~StartsWithWd(s.id)
        THEN /\ adds' = [adds EXCEPT ![a].pc = "tvmaze", ![a].shows = shows, ![a].m = m]
             /\ UNCHANGED <<syncShows, container>>
        ELSE /\ syncShows' =
                  Append(shows,
                         NewShow(s, IF m.contentType = "movies"
                                    THEN [m EXCEPT !.fetchedAt = toISOString(now)]
                                    ELSE m))
             /\ adds' = [adds EXCEPT ![a].pc = "set", ![a].shows = shows,
                                     ![a].wrote = TRUE,
                                     ![a].m = IF m.contentType = "movies"
                                              THEN [m EXCEPT !.fetchedAt = toISOString(now)]
                                              ELSE m]
             /\ UNCHANGED container
  /\ UNCHANGED <<now, ticks>> /\ UNCHANGED outsideAdd

\* lines 2081-2112: fetchAnimeDetails resolves
AddJikanSettles(a) ==
  /\ adds[a].pc = "jikan"
  /\ \E jikanData \in JikanDetailAnswers :
       LET s == adds[a].summary
           m == IF jikanData = NULL THEN adds[a].m
                ELSE WithJikan(adds[a].m, jikanData[1])
       IN IF s.id # "" /\ ~StartsWithWd(s.id) /\ ~StartsWithJikan(s.id)
          THEN /\ adds' = [adds EXCEPT ![a].pc = "tvmaze", ![a].m = m,
                                       ![a].jikan = jikanData]
               /\ UNCHANGED syncShows
          ELSE AddWrites(a, [m EXCEPT !.fetchedAt = toISOString(now)], jikanData, NULL,
                         NULL)
  /\ UNCHANGED <<now, ticks, container>> /\ UNCHANGED outsideAdd

\* lines 2091-2140: Promise.all([fetchShow, fetchEpisodes]) settles
AddTvmazeSettles(a) ==
  /\ adds[a].pc = "tvmaze"
  /\ \E up \in BOOLEAN, resp \in AddResponses :
       LET res == fetchEpisodes(resp)
           info == fetchShow(adds[a].summary.id, up)
       IN AddWrites(a, IF res.threw THEN adds[a].m
                       ELSE WithTvmaze(adds[a].m, info, res.value, now),
                    adds[a].jikan, IF res.threw THEN NULL ELSE info,
                    IF res.threw \/ ~resp.ok THEN NULL ELSE Some(res.value))
  /\ UNCHANGED <<now, ticks, container>> /\ UNCHANGED outsideAdd

\* lines 2157-2167: storage.sync.set resolves
AddSetDone(a) ==
  /\ adds[a].pc = "set"
  /\ adds' = [adds EXCEPT ![a].pc = "done"]
  /\ container' = IF currentView = "my-shows"
                  THEN Rendered(Append(adds[a].shows,
                                       NewShow(adds[a].summary, adds[a].m)),
                                generation, currentView)
                  ELSE container
  /\ UNCHANGED <<now, ticks, syncShows>> /\ UNCHANGED outsideAdd

(***************************************************************************)
(* popup: the browse views (switchView, setContentType, the genre chips,   *)
(* loadAndRenderAiringShows, loadAndRenderPopularShows,                    *)
(* loadAndRenderByGenre, loadAndRenderShows)                               *)
(***************************************************************************)
\* jikanApi.js lines 40-53: an anime as fetchAiringAnime / fetchPopularAnime
\* return it (there is a synopsis field and no summary field)
AnimeSummary(malId, name, nameEnglish, genres, image, status, synopsis) ==
  [id |-> "mal-" \o ToString(malId), malId |-> malId, name |-> name,
   nameEnglish |-> nameEnglish, genres |-> genres, image |-> image,
   status |-> status, synopsis |-> synopsis, summary |-> StrUndef,
   contentType |-> "anime"]

AnNaruto == AnimeSummary(20, Title("naruto", "NARUTO"), Title("naruto", "Naruto"),
                         Some(<<"Shounen">>), ImgStr("https://j20"), "Finished Airing",
                         "ninja anime")
AnBleach == AnimeSummary(21, Title("bleach", "BLEACH"), Title("bleach tybw", "Bleach: TYBW"),
                         Some(<<"Action">>), ImgStr("https://j21"), "Currently Airing",
                         "soul reapers")
AnFrieren == AnimeSummary(22, Title("frieren", "Frieren"), Title("frieren", "Frieren"),
                          Some(<<"Fantasy">>), ImgNull, "Currently Airing", "")
AnSousou == AnimeSummary(23, Title("sousou no frieren", "Sousou no Frieren"),
                         Title("frieren beyond", "Frieren: Beyond"), Some(<<>>),
                         ImgStr("https://j23"), StrNull, "elf mage")

AnimeAnswers == { <<>>, <<AnNaruto, AnFrieren>>, <<AnSousou, AnBleach>> }

\* a Wikidata movie as queryByGenre returns it
MovieItem(wikidataId, name, imdbId) ==
  [wikidataId |-> wikidataId, name |-> name, imdbId |-> imdbId]

MvHeat == MovieItem(1, Title("heat 1995", "Heat (1995)"), "tt5")
MvDark == MovieItem(2, Title("dark", "DARK"), "")
MvNone == MovieItem(3, Title("ronin", "Ronin"), "tt9")

MovieAnswers == { <<>>, <<MvHeat, MvNone>>, <<MvDark>> }

\* a TVmaze show as the list adapters return it (part_001 lines 23-31)
TvSummary(tv) ==
  [id |-> tv.id, name |-> tv.name,
   genres |-> IF tv.genres = NULL THEN Some(<<>>) ELSE tv.genres,
   status |-> OrStr(tv.status, StrNull), summary |-> tv.summary,
   image |-> IF tv.image.kind = "object" THEN MediumOrOriginal(tv.image) ELSE ImgNull]

TvAnswers == { <<>>, <<TvSummary(TvDark), TvSummary(TvLost)>> }

\* tvmazeApi.js searchByTitle: the show whose title equals the query
\* regardless of case, null when there is none or TVmaze cannot be reached
searchByTitle(title, up) ==
  IF up /\ \E tv \in TvCatalog : tv.name.key = title.key
  THEN Some(CHOOSE tv \in TvCatalog : tv.name.key = title.key)
  ELSE NULL

\* tvmazeApi.js lookupByImdb
lookupByImdb(imdbId, up) ==
  IF up /\ \E tv \in TvCatalog : tv.imdb = imdbId
  THEN Some(CHOOSE tv \in TvCatalog : tv.imdb = imdbId)
  ELSE NULL

\* a card of the airing / popular views
ResultShow(id, name, genres, status, summary, image, ne, ctype, malId, imdbId, tvmazeId) ==
  [id |-> id, name |-> name, genres |-> genres, status |-> status,
   summary |-> summary, image |-> image, nextEpisode |-> ne, watched |-> FALSE,
   watchedAt |-> Absent, contentType |-> ctype, malId |-> malId,
   imdbId |-> imdbId, tvmazeId |-> tvmazeId]

\* try { computeNextEpisode(await fetchEpisodes(id)) } catch { null }
NextEpisodeOrNull(resp, t) ==
  LET res == fetchEpisodes(resp) IN
  IF res.threw THEN NULL ELSE computeNextEpisode(res.value, t)

\* lines 861-882, 1014-1035, 1163-1183: a TV show of a list
TvEntry(show, ne) ==
  Some(ResultShow(show.id, show.name, show.genres, show.status, show.summary,
                  show.image, ne, "tv", 0, "", StrNull))

\* one lookup in the TV catalog: how it asked, what for, what it found
Lookup(by, query, found) == [by |-> by, query |-> query, found |-> found]

\* a matcher that searches the original title before the English one
AnimeLookups_OriginalFirst(anime, up) ==
  LET first == searchByTitle(anime.name, up)
  IN IF first = NULL /\ anime.name # anime.nameEnglish
     THEN << Lookup("title", anime.name.form, first),
             Lookup("title", anime.nameEnglish.form,
                    searchByTitle(anime.nameEnglish, up)) >>
     ELSE << Lookup("title", anime.name.form, first) >>

\* lines 892-897, 1051-1056, 1194-1199: the title searches for one anime,
\* in the order they are awaited
AnimeLookups(anime, up) ==
  LET title == IF anime.nameEnglish.key = "" THEN anime.name ELSE anime.nameEnglish
      first == searchByTitle(title, up)
  IN IF first = NULL /\ anime.name # anime.nameEnglish
     THEN << Lookup("title", title.form, first),
             Lookup("title", anime.name.form, searchByTitle(anime.name, up)) >>
     ELSE << Lookup("title", title.form, first) >>

\* tvmazeShow after the searches
MatchAnime(anime, up) ==
  LET lookups == AnimeLookups(anime, up) IN lookups[Len(lookups)].found

\* lines 902-914 and 1204-1216: TVmaze image first, string or object
FinalImageAiring(tvImage, animeImage) ==
  LET fromTv == IF FalsyImg(tvImage) THEN ImgNull
                ELSE IF tvImage.kind = "string" THEN tvImage
                ELSE MediumOrOriginal(tvImage)
  IN IF FalsyImg(fromTv) /\ animeImage.kind = "string" /\ animeImage.url # ""
     THEN animeImage ELSE fromTv

\* lines 1061-1066: only a string image of TVmaze is taken
FinalImagePopular(tvImage, animeImage) ==
  IF tvImage.kind = "string" /\ tvImage.url # "" THEN tvImage
  ELSE IF animeImage.kind = "string" /\ animeImage.url # "" THEN animeImage
  ELSE ImgNull

\* an anime that is listed although no TVmaze show was found for it
AnimeEntry_KeepsUnmatched(anime, tvmazeShow, finalImage, ne) ==
  IF tvmazeShow # NULL
  THEN Some(ResultShow(tvmazeShow[1].id, tvmazeShow[1].name,
                       OrOpt(tvmazeShow[1].genres, anime.genres),
                       OrStr(tvmazeShow[1].status, anime.status),
                       OrStr(tvmazeShow[1].summary, anime.summary),
                       finalImage, ne, "anime", anime.malId, "", StrNull))
  ELSE Some(ResultShow(anime.id, anime.name, anime.genres, anime.status,
                       anime.summary, anime.image, NULL, "anime", anime.malId, "",
                       StrNull))

\* lines 900-949, 1059-1101, 1202-1250: the card of one anime, null when
\* no TVmaze show was found
AnimeEntry(anime, tvmazeShow, finalImage, ne) ==
  IF tvmazeShow # NULL
  THEN Some(ResultShow(tvmazeShow[1].id, tvmazeShow[1].name,
                       OrOpt(tvmazeShow[1].genres, anime.genres),
                       OrStr(tvmazeShow[1].status, anime.status),
                       OrStr(tvmazeShow[1].summary, anime.summary),
                       finalImage, ne, "anime", anime.malId, "", StrNull))
  ELSE NULL

\* lines 962-968, 1113-1121, 1262-1270: the lookups for one movie
MovieLookups(item, up) ==
  LET byImdb == IF item.imdbId # ""
                THEN << Lookup("imdb", item.imdbId, lookupByImdb(item.imdbId, up)) >>
                ELSE <<>>
  IN IF byImdb = <<>> \/ byImdb[1].found = NULL
     THEN Append(byImdb, Lookup("title", item.name.form, searchByTitle(item.name, up)))
     ELSE byImdb

\* tvmazeData after the lookups
MatchMovie(item, up) ==
  LET lookups == MovieLookups(item, up) IN lookups[Len(lookups)].found

\* a movie card that carries the next episode of the TVmaze show it matched
MovieEntry_WithMatchedEpisode(item, tvmazeData) ==
  Some(ResultShow(WdId(item.wikidataId), item.name, Some(<<>>), StrNull, "", ImgNull,
                  IF tvmazeData = NULL THEN NULL
                  ELSE Some(Ep(1, 1, Iso(T0 + 1000, 0))),
                  "movies", 0, item.imdbId,
                  IF tvmazeData = NULL THEN StrNull ELSE tvmazeData[1].id))

\* lines 970-983, 1123-1136, 1272-1285: the card of one movie
MovieEntry(item, tvmazeData) ==
  Some(ResultShow(WdId(item.wikidataId), item.name,
                  IF tvmazeData = NULL THEN Some(<<>>)
                  ELSE OrOpt(tvmazeData[1].genres, Some(<<>>)),
                  IF tvmazeData = NULL THEN StrNull
                  ELSE OrStr(tvmazeData[1].status, StrNull),
                  IF tvmazeData = NULL THEN "" ELSE OrStr(tvmazeData[1].summary, ""),
                  IF tvmazeData = NULL THEN ImgNull
                  ELSE OrImg(tvmazeData[1].image, ImgNull),
                  NULL, "movies", 0, item.imdbId,
                  IF tvmazeData = NULL THEN StrNull ELSE tvmazeData[1].id))

\* matchedAnime.filter(show => show !== null), on a list of optional cards
RECURSIVE NonNull(_)
NonNull(entries) ==
  IF entries = <<>> THEN <<>> ELSE Head(entries) \o NonNull(Tail(entries))

\* the result set of one load: kind and genre tell the function, ctype
\* the branch it took
ResultSet(load, up, resp, t) ==
  LET items == load.items
      byGenre == load.kind = "popular" /\ load.genre # StrNull
      entry(i) ==
        IF load.ctype = "tv" THEN TvEntry(items[i], NextEpisodeOrNull(resp, t))
        ELSE IF load.ctype = "anime"
        THEN LET tvm == MatchAnime(items[i], up)
                 img == IF tvm = NULL THEN ImgNull
                        ELSE IF load.kind = "popular" /\ ~byGenre
                        THEN FinalImagePopular(tvm[1].image, items[i].image)
                        ELSE FinalImageAiring(tvm[1].image, items[i].image)
             IN AnimeEntry(items[i], tvm, img, NextEpisodeOrNull(resp, t))
        ELSE MovieEntry(items[i], MatchMovie(items[i], up))
  IN NonNull([i \in 1 .. Len(items) |-> entry(i)])

\* the lookups of the per-item matchers of one load
LookupsOf(load, up) ==
  IF load.ctype = "anime"
  THEN [i \in 1 .. Len(load.items) |-> AnimeLookups(load.items[i], up)]
  ELSE IF load.ctype = "movies"
  THEN [i \in 1 .. Len(load.items) |-> MovieLookups(load.items[i], up)]
  ELSE <<>>

Views == {"my-shows", "airing", "popular"}
ContentTypes == {"tv", "anime", "movies"}
GenreChips == {StrNull, "Action"}

Load(kind, ctype, genre, gen) ==
  [kind |-> kind, ctype |-> ctype, genre |-> genre, gen |-> gen, pc |-> "list",
   items |-> <<>>]

\* lookups keeps, item by item, the TV-catalog lookups the load issued
NoLoad == [kind |-> "none", ctype |-> "", genre |-> StrNull, up |-> FALSE,
           items |-> <<>>, shows |-> <<>>, lookups |-> <<>>]

\* lines 837-844, 1369-1373, 1316-1318: the loader of the view is called;
\* the browse loaders first put their loading card into the container
StartLoad(view, ctype, genre, gen) ==
  /\ loads' = Append(loads, Load(view, ctype, genre, gen))
  /\ container' = IF view = "my-shows" THEN container
                  ELSE IF view = "airing"
                  THEN Message("Loading shows airing today...", gen)
                  ELSE Message("Loading popular shows...", gen)

ViewInit ==
  /\ currentView = "my-shows"
  /\ currentPage = 1
  /\ edits = NoEdits /\ getGenre = NoGenreCalls
  /\ currentContentType = "tv"
  /\ currentGenreFilter = StrNull
  /\ genreCache \in {"null", "loaded"}
  /\ container = Empty
  /\ loads = <<Load("my-shows", "tv", StrNull, 0)>>
  /\ lastLoad = NoLoad
  /\ generation = 0
  /\ syncShows \in { <<>>,
                     << StoredShow(TvId(1), Title("dark", "Dark"), ImgStr("https://m1"),
                                   Some(<<"Drama">>), "Ended", "time travel", NULL,
                                   Iso(T0 - 1000, 0), "tv", UserChoices) >> }

\* lines 777-850: a tab is clicked
SwitchView(view) ==
  /\ generation < MaxSwitches
  /\ generation' = generation + 1
  /\ currentView' = view
  /\ currentGenreFilter' = IF view = "popular" THEN currentGenreFilter ELSE StrNull
  /\ StartLoad(view, currentContentType, currentGenreFilter', generation')
  /\ UNCHANGED <<currentContentType, genreCache, lastLoad, syncShows, now, ticks>>
  /\ UNCHANGED outsideView

\* lines 1353-1374: a content type button is clicked (the buttons are
\* shown in the airing and popular views only)
SetContentType(type) ==
  /\ generation < MaxSwitches
  /\ currentView \in {"airing", "popular"}
  /\ generation' = generation + 1
  /\ currentContentType' = type
  /\ StartLoad(currentView, type, currentGenreFilter, generation')
  /\ UNCHANGED <<currentView, currentGenreFilter, genreCache, lastLoad, syncShows,
                 now, ticks>>
  /\ UNCHANGED outsideView

\* lines 1312-1338: a genre chip is clicked (shown in the popular view)
SelectGenre(genre) ==
  /\ generation < MaxSwitches
  /\ currentView = "popular"
  /\ generation' = generation + 1
  /\ currentGenreFilter' = genre
  /\ StartLoad("popular", currentContentType, genre, generation')
  /\ UNCHANGED <<currentView, currentContentType, genreCache, lastLoad, syncShows,
                 now, ticks>>
  /\ UNCHANGED outsideView

Without(q, k) == [i \in 1 .. Len(q) - 1 |-> IF i < k THEN q[i] ELSE q[i + 1]]

\* lines 1376-1397: storage.sync.get resolves in loadAndRenderShows
\* (status filter "all"): the stored shows, or the sample when none
SAMPLE_SHOWS ==
  << StoredShow("sample-1", Title("strange things in the mountains",
                                  "Strange Things in the Mountains"),
                ImgStr("https://static"), Some(<<"Drama", "Mystery">>), "Running",
                "A sample show to demonstrate the card and details layout.",
                Some(Ep(2, 5, Iso(T0 + 6 * ONE_DAY_MS, 0))), Absent,
                StrUndef, UserDefaults) >>

MyShowsArrive(k) ==
  /\ k \in 1 .. Len(loads)
  /\ loads[k].kind = "my-shows"
  /\ container' = Rendered(IF Len(syncShows) = 0 THEN SAMPLE_SHOWS ELSE syncShows,
                           loads[k].gen, currentView)
  /\ loads' = Without(loads, k)
  /\ UNCHANGED <<currentView, currentContentType, currentGenreFilter, genreCache,
                 lastLoad, generation, syncShows, now, ticks>>
  /\ UNCHANGED outsideView

\* jikanApi.js lines 61-125 and 160-175: what fetchPopularAnime(genre)
\* settles to when the genre list request and the anime request succeed
\* or not: the genre cache afterwards, whether it threw, and the list
fetchPopularAnime(genre, cache, genresUp, listUp, answer) ==
  LET cacheAfter == IF cache = "loaded" \/ genresUp THEN "loaded" ELSE "null"
  IN IF cacheAfter = "loaded"
     THEN IF genre = StrUndef
          THEN [cache |-> cacheAfter, threw |-> TRUE, value |-> <<>>]
          ELSE [cache |-> cacheAfter, threw |-> FALSE,
                value |-> IF listUp THEN answer ELSE <<>>]
     ELSE IF ~listUp THEN [cache |-> cacheAfter, threw |-> FALSE, value |-> <<>>]
     ELSE IF genre = StrUndef
          THEN [cache |-> cacheAfter, threw |-> TRUE, value |-> <<>>]
          ELSE [cache |-> cacheAfter, threw |-> FALSE, value |-> answer]

\* the catalog list of a browse load arrives and the per-item lookups
\* are issued (lines 859, 886, 958, 1012, 1042-1045, 1109, 1161, 1188, 1258)
ListArrives(k) ==
  /\ k \in 1 .. Len(loads)
  /\ loads[k].kind \in {"airing", "popular"}
  /\ loads[k].pc = "list"
  /\ LET load == loads[k] IN
     IF load.ctype = "anime" /\ load.kind = "popular"
     THEN \E genresUp \in BOOLEAN, listUp \in BOOLEAN, answer \in AnimeAnswers :
            LET r == fetchPopularAnime(IF load.genre = StrNull THEN StrUndef
                                       ELSE load.genre,
                                       genreCache, genresUp, listUp, answer)
            IN /\ genreCache' = r.cache
               /\ IF r.threw
                  THEN /\ loads' = Without(loads, k)
                       /\ container' = Message("Failed to load popular shows.", load.gen)
                  ELSE /\ loads' = [loads EXCEPT ![k].pc = "match", ![k].items = r.value]
                       /\ container' = container
     ELSE /\ \E answer \in (IF load.ctype = "tv" THEN TvAnswers
                            ELSE IF load.ctype = "anime" THEN AnimeAnswers
                            ELSE MovieAnswers) :
               loads' = [loads EXCEPT ![k].pc = "match", ![k].items = answer]
          /\ UNCHANGED <<genreCache, container>>
  /\ UNCHANGED <<currentView, currentContentType, currentGenreFilter, lastLoad,
                 generation, syncShows, now, ticks>>
  /\ UNCHANGED outsideView

ViewResponses ==
  { NetErr, OkJson(<<Ep(1, 3, Iso(T0 - 1000, 0)), Ep(2, 1, Iso(T0 + 5000, 0))>>) }

\* lines 987-990 and 1141-1144: the text shown for an empty result set,
\* worded after the content type selected when the load ends
NoneFound(kind, ctype) ==
  IF kind = "airing"
  THEN "No " \o (IF ctype = "tv" THEN "TV shows" ELSE "anime") \o " airing today."
  ELSE "No popular " \o ctype \o " found."

\* every lookup of the load has settled: the result set is rendered
\* (lines 954-997, 1106-1151)
LoadCompletes(k) ==
  /\ k \in 1 .. Len(loads)
  /\ loads[k].kind \in {"airing", "popular"}
  /\ loads[k].pc = "match"
  /\ \E up \in BOOLEAN, resp \in ViewResponses :
       LET shows == ResultSet(loads[k], up, resp, now) IN
       /\ lastLoad' = [kind |-> loads[k].kind, ctype |-> loads[k].ctype,
                       genre |-> loads[k].genre, up |-> up,
                       items |-> loads[k].items, shows |-> shows,
                       lookups |-> LookupsOf(loads[k], up)]
       /\ container' = IF shows = <<>>
                       THEN Message(NoneFound(loads[k].kind, currentContentType),
                                    loads[k].gen)
                       ELSE Rendered(shows, loads[k].gen, currentView)
  /\ loads' = Without(loads, k)
  /\ UNCHANGED <<currentView, currentContentType, currentGenreFilter, genreCache,
                 generation, syncShows, now, ticks>>
  /\ UNCHANGED outsideView

(***************************************************************************)
(* popup: import of a backup file (handleFileImport, showImportModal,      *)
(* hideImportModal, processImport)                                         *)
(***************************************************************************)
\* the text of a chosen file: not JSON, the JSON value null, or a JSON
\* value whose shows member is missing, a string, or an array
FileNotJson == [json |-> "invalid", shows |-> "missing", list |-> <<>>]
FileJsonNull == [json |-> "null", shows |-> "missing", list |-> <<>>]
FileNoShows == [json |-> "object", shows |-> "missing", list |-> <<>>]
FileShowsString == [json |-> "object", shows |-> "string", list |-> <<>>]
FileShows(list) == [json |-> "object", shows |-> "array", list |-> list]

ImportedShow(id, name, u) ==
  StoredShow(id, name, ImgStr("https://i"), Some(<<"Drama">>), "Ended", "from a file",
             NULL, Iso(T0 - 1000, 0), "tv", u)

\* the shows of the stored collection and of the files
Kept1 == ImportedShow(TvId(1), Title("dark", "Dark"), UserChoices)
Kept2 == ImportedShow(TvId(2), Title("lost", "Lost"), UserDefaults)
File1 == ImportedShow(TvId(1), Title("dark", "Dark"), UserDefaults)
File2 == ImportedShow(TvId(2), Title("lost", "Lost"), UserDefaults)
File3 == ImportedShow(TvId(3), Title("bleach", "Bleach"), UserDefaults)
File3b == ImportedShow(TvId(3), Title("bleach", "Bleach"), UserChoices)

Files ==
  { FileNotJson, FileJsonNull, FileNoShows, FileShowsString, FileShows(<<>>),
    FileShows(<<File1, File3>>), FileShows(<<File3, File3b, File2>>) }

\* a validation that lets an empty shows array through
AcceptsFile_EmptyToo(file) ==
  file.json = "object" /\ file.shows = "array"

\* lines 236-251: JSON.parse succeeds, importData.shows is an array and
\* it is not empty
AcceptsFile(file) ==
  file.json = "object" /\ file.shows = "array" /\ Len(file.list) # 0

NoFile == [file |-> FileNotJson, before |-> NULL, after |-> NULL]
NoImport == [merge |-> FALSE, existing |-> <<>>, imported |-> <<>>,
             wrote |-> FALSE, final |-> <<>>]

ImportInit ==
  /\ pendingImportData = NULL
  /\ importer = [reads |-> <<>>, jobs |-> <<>>, chosen |-> 0, clicks |-> 0]
  /\ fileLog = NoFile
  /\ importLog = NoImport
  /\ syncShows \in { <<>>, <<Kept1>>, <<Kept1, Kept2>> }
  /\ loads = <<>>
  /\ container = Empty

\* line 231-236: the user chooses a file; file.text() is awaited
FileChosen(file) ==
  /\ importer.chosen < MaxFiles
  /\ importer' = [importer EXCEPT !.reads = Append(@, file), !.chosen = @ + 1]
  /\ UNCHANGED <<pendingImportData, fileLog, importLog, syncShows, loads, container,
                 now, ticks>>
  /\ UNCHANGED outsideImport

\* lines 236-266 and 171-183: the text arrives and is parsed and checked;
\* showImportModal keeps the parsed file in pendingImportData
FileRead(k) ==
  /\ k \in 1 .. Len(importer.reads)
  /\ LET file == importer.reads[k] IN
     /\ pendingImportData' = IF AcceptsFile(file) THEN Some([shows |-> file.list])
                             ELSE pendingImportData
     /\ fileLog' = [file |-> file, before |-> pendingImportData,
                    after |-> pendingImportData']
  /\ importer' = [importer EXCEPT !.reads = Without(@, k)]
  /\ UNCHANGED <<importLog, syncShows, loads, container, now, ticks>>
  /\ UNCHANGED outsideImport

\* lines 185-191, 580, 589: Cancel or the backdrop of the modal is clicked
ImportCancel ==
  /\ pendingImportData # NULL
  /\ pendingImportData' = NULL
  /\ UNCHANGED <<importer, fileLog, importLog, syncShows, loads, container, now, ticks>>
  /\ UNCHANGED outsideImport

\* lines 193-196, 568, 574: Merge or Replace is clicked in the modal;
\* storage.sync.get is issued
ImportClick(merge) ==
  /\ importer.clicks < MaxImports
  /\ pendingImportData # NULL
  /\ importer' = [importer EXCEPT !.jobs = Append(@, [pc |-> "get", merge |-> merge]),
                                  !.clicks = @ + 1]
  /\ UNCHANGED <<pendingImportData, fileLog, importLog, syncShows, loads, container,
                 now, ticks>>
  /\ UNCHANGED outsideImport

\* lines 203-205: the imported shows whose id no existing show has
RECURSIVE NewShows(_, _)
NewShows(existingShows, imported) ==
  IF imported = <<>> THEN <<>>
  ELSE IF \E i \in 1 .. Len(existingShows) : existingShows[i].id = Head(imported).id
  THEN NewShows(existingShows, Tail(imported))
  ELSE <<Head(imported)>> \o NewShows(existingShows, Tail(imported))

\* a merge in which the imported show takes the place of the existing one
FinalShows_ImportedWins(merge, existingShows, imported) ==
  IF merge
  THEN NewShows(imported, existingShows) \o imported
  ELSE imported

\* a replace that keeps the existing shows in front of the imported ones
FinalShows_ReplaceKeeps(merge, existingShows, imported) ==
  IF merge
  THEN existingShows \o NewShows(existingShows, imported)
  ELSE existingShows \o imported

\* lines 201-212
FinalShows(merge, existingShows, imported) ==
  IF merge
  THEN existingShows \o NewShows(existingShows, imported)
  ELSE imported

\* lines 197-214, 224-228: the stored collection arrives; the final
\* collection is computed and storage.sync.set is called. When the modal
\* was closed in between, reading pendingImportData.shows throws and the
\* catch closes the modal
ImportGot(k) ==
  /\ k \in 1 .. Len(importer.jobs)
  /\ importer.jobs[k].pc = "get"
  /\ LET merge == importer.jobs[k].merge
         existingShows == syncShows
     IN IF pendingImportData = NULL
        THEN /\ importer' = [importer EXCEPT !.jobs = Without(@, k)]
             /\ importLog' = [merge |-> merge, existing |-> existingShows,
                              imported |-> <<>>, wrote |-> FALSE, final |-> <<>>]
             /\ UNCHANGED <<syncShows, pendingImportData>>
        ELSE LET finalShows == FinalShows(merge, existingShows,
                                          pendingImportData[1].shows)
             IN /\ syncShows' = finalShows
                /\ importer' = [importer EXCEPT !.jobs[k].pc = "set"]
                /\ importLog' = [merge |-> merge, existing |-> existingShows,
                                 imported |-> pendingImportData[1].shows,
                                 wrote |-> TRUE, final |-> finalShows]
                /\ UNCHANGED pendingImportData
  /\ UNCHANGED <<fileLog, loads, container, now, ticks>>
  /\ UNCHANGED outsideImport

\* lines 214-223: storage.sync.set resolves: the list is loaded again and
\* the modal is closed
ImportSetDone(k) ==
  /\ k \in 1 .. Len(importer.jobs)
  /\ importer.jobs[k].pc = "set"
  /\ importer' = [importer EXCEPT !.jobs = Without(@, k)]
  /\ loads' = Append(loads, Load("my-shows", currentContentType, currentGenreFilter,
                                 generation))
  /\ pendingImportData' = NULL
  /\ UNCHANGED <<fileLog, importLog, syncShows, container, now, ticks>>
  /\ UNCHANGED outsideImport

(***************************************************************************)
(* Inputs of sortShows                                                     *)
(***************************************************************************)
SortedShow(id, name, airstamp, priority) ==
  StoredShow(id, name, ImgNull, Some(<<>>), "Running", "",
             IF airstamp = Absent THEN NULL ELSE Some(Ep(1, 1, airstamp)),
             Absent, "tv", [UserDefaults EXCEPT !.priority = priority])

\* the shows position n of a collection is drawn from
SortInputs(n) ==
  { SortedShow(TvId(n), Title("lost", "Lost"), Iso(T0 + 2000, 0), TRUE),
    SortedShow(TvId(n), Title("dark", "dark"), Absent, TRUE),
    SortedShow(TvId(n), Title("dark", "Dark"), Iso(T0 + 1000, 0), FALSE),
    SortedShow(TvId(n), Title("bleach", "Bleach"), Iso(T0 + 1000, 1), FALSE),
    SortedShow(TvId(n), Title("lost", "Lost"), Absent, FALSE),
    SortedShow(TvId(n), Title("dark", "Dark"), Garbage, FALSE),
    SortedShow(TvId(n), Title("dark", "dark"), Iso(T0 + 2000, 0), FALSE),
    SortedShow(TvId(n), Title("bleach", "Bleach"), EmptyStr, TRUE) }

RECURSIVE SortCollections(_)
SortCollections(n) ==
  IF n = 0 THEN {<<>>}
  ELSE LET shorter == SortCollections(n - 1) IN
       shorter \cup
       { Append(q, s) : q \in {r \in shorter : Len(r) = n - 1}, s \in SortInputs(n) }

SortModes == {"alpha", "soonest", "rating"}

SortInit ==
  sorting \in [op : {"input"}, shows : SortCollections(MaxSorted), mode : SortModes,
               result : {<<>>}]

\* sortShows(shows, mode) is evaluated
SortEvaluate ==
  /\ sorting.op = "input"
  /\ sorting' = [sorting EXCEPT !.op = "sortShows",
                                !.result = sortShows(sorting.shows, sorting.mode)]
  /\ UNCHANGED <<now, ticks, pure, countdown>> /\ UNCHANGED outsidePure

(***************************************************************************)
(* popup: getCountdownInfo                                                 *)
(***************************************************************************)
Max(a, b) == IF a > b THEN a ELSE b
Min(a, b) == IF a < b THEN a ELSE b

\* the unit fields of a result that has none
NoUnits == <<>>
Units(d, h, m, sec) == <<[days |-> d, hours |-> h, minutes |-> m, seconds |-> sec]>>

\* a result for every airstamp that lacks one: always "No upcoming episodes"
NoCountdown_AlwaysNoEpisodes(airstamp) ==
  [mode |-> "none", label |-> "No upcoming episodes", progress |-> 100,
   units |-> NoUnits]

\* lines 1840-1847: the result for an airstamp that is falsy or does not parse
NoCountdown(airstamp) ==
  IF IsFalsy(airstamp)
  THEN [mode |-> "none", label |-> "No upcoming episodes", progress |-> 100,
        units |-> NoUnits]
  ELSE [mode |-> "none", label |-> "Unknown date", progress |-> 50,
        units |-> NoUnits]

\* a test that takes the very instant of the airstamp for upcoming
IsPast_Strict(diffMs) == diffMs < 0

\* line 1850: diffMs <= 0
IsPast(diffMs) == diffMs <= 0

\* hours without the remainder of the day
CountdownUnits_HoursOfTotal(diffMs) ==
  LET totalSeconds == diffMs \div 1000 IN
  Units(totalSeconds \div (60 * 60 * 24),
        totalSeconds \div 3600,
        (totalSeconds % 3600) \div 60,
        totalSeconds % 60)

\* lines 1862-1866, for diffMs > 0
CountdownUnits(diffMs) ==
  LET totalSeconds == diffMs \div 1000 IN
  Units(totalSeconds \div (60 * 60 * 24),
        (totalSeconds % (60 * 60 * 24)) \div 3600,
        (totalSeconds % 3600) \div 60,
        totalSeconds % 60)

SEVEN_DAYS_MS == 7 * 24 * 60 * 60 * 1000

\* the values of diffMs at which 100 - (diffMs / sevenDaysMs) * 100 is a
\* half in exact arithmetic (45.5 and 44.5) and just below it in the double
\* arithmetic of the code; at every other half the double is exact
DoubleBelowHalf == {329616000, 335664000}

\* Math.round(100 - Math.min(1, diffMs / sevenDaysMs) * 100) for diffMs > 0:
\* 100 - diffMs / onePercent rounded to the nearest integer, a half going up
RoundedProgress(diffMs) ==
  LET onePercent == SEVEN_DAYS_MS \div 100
      half == onePercent \div 2
      exact == IF diffMs >= SEVEN_DAYS_MS THEN 0
               ELSE IF diffMs < half THEN 100
               ELSE 100 - ((diffMs - half + onePercent - 1) \div onePercent)
  IN IF diffMs \in DoubleBelowHalf THEN exact - 1 ELSE exact

\* a progress without the lower limit of 5
CountdownProgress_NoFloor(diffMs) == Min(100, RoundedProgress(diffMs))

\* lines 1868-1870
CountdownProgress(diffMs) == Max(5, Min(100, RoundedProgress(diffMs)))

\* lines 1839-1881
getCountdownInfo(airstamp, t) ==
  LET airTime == DateParse(airstamp) IN
  IF IsFalsy(airstamp) \/ airTime.nan THEN NoCountdown(airstamp)
  ELSE LET diffMs == airTime.v - t IN
       IF IsPast(diffMs)
       THEN [mode |-> "past", label |-> "Released", progress |-> 100,
             units |-> Units(0, 0, 0, 0)]
       ELSE [mode |-> "upcoming", label |-> "Time until release",
             progress |-> CountdownProgress(diffMs),
             units |-> CountdownUnits(diffMs)]

\* airTime - now of the airstamps the model evaluates
DiffInputs ==
  { 0 - ONE_DAY_MS, -1000, -1, 0, 1, 999, 1000, 1001, 59999, 60000, 3599999,
    3600000, 3024000 - 1, 3024000, 3024000 + 1, ONE_DAY_MS - 1, ONE_DAY_MS,
    ONE_DAY_MS + 3661000, 329616000 - 1, 329616000, 329616000 + 1, 335664000,
    571536000, 571536000 + 1, SEVEN_DAYS_MS - 1, SEVEN_DAYS_MS,
    SEVEN_DAYS_MS + 1, 8 * ONE_DAY_MS }

AirstampInputs ==
  {Absent, EmptyStr, Garbage} \cup {Iso(T0 + d, 0) : d \in DiffInputs}
    \cup {Iso(T0 + 1000, 1)}

NotEvaluated == [airstamp |-> Absent, info |-> NoCountdown(Absent)]

CountdownInit ==
  countdown = [op |-> "input", n |-> 0, last |-> NotEvaluated, earlier |-> NotEvaluated]

\* a card is rendered, or the one-second timer re-evaluates it:
\* getCountdownInfo(airstamp) is evaluated
CountdownEvaluate ==
  /\ countdown.n < MaxEvaluations
  /\ \E airstamp \in AirstampInputs :
       countdown' = [op |-> "getCountdownInfo", n |-> countdown.n + 1,
                     last |-> [airstamp |-> airstamp,
                               info |-> getCountdownInfo(airstamp, now)],
                     earlier |-> countdown.last]
  /\ UNCHANGED <<now, ticks, pure, sorting>> /\ UNCHANGED outsidePure

(***************************************************************************)
(* Specifications                                                          *)
(***************************************************************************)
SortIdle == sorting = [op |-> "idle", shows |-> <<>>, mode |-> "", result |-> <<>>]

CountdownIdle ==
  countdown = [op |-> "idle", n |-> 0, last |-> NotEvaluated, earlier |-> NotEvaluated]

PureIdle ==
  /\ pure = [op |-> "idle", lastFetchedAt |-> Absent, episodes |-> <<>>,
             stale |-> FALSE, next |-> NULL]
  /\ SortIdle /\ CountdownIdle

RefreshIdle ==
  localShows = <<>> /\ rf = IdleRf /\ rfLog = <<>> /\ requests = <<>> /\ alarmDue = T0

RlIdle == lastRequestTime = 0 /\ rl = [c \in Calls |-> NotCalled] /\ dispatched = <<>>

AddIdle == syncShows = <<>> /\ adds = [a \in AddIds |-> NotAdding]

ImportIdle ==
  /\ pendingImportData = NULL
  /\ importer = [reads |-> <<>>, jobs |-> <<>>, chosen |-> 0, clicks |-> 0]
  /\ fileLog = NoFile /\ importLog = NoImport

ViewIdle ==
  /\ currentView = "my-shows" /\ currentContentType = "tv" /\ currentPage = 1
  /\ edits = NoEdits /\ getGenre = NoGenreCalls
  /\ currentGenreFilter = StrNull /\ genreCache = "null" /\ container = Empty
  /\ loads = <<>> /\ lastLoad = NoLoad /\ generation = 0
  /\ ImportIdle

InitPure ==
  /\ now \in {T0 - 1, T0, T0 + 1} /\ ticks = 0 /\ PureInit /\ SortIdle /\ CountdownIdle
  /\ RefreshIdle /\ RlIdle /\ AddIdle /\ ViewIdle
NextPure == PureIsStale \/ PureComputeNext
SpecPure == InitPure /\ [][NextPure]_vars

PureUnused == pure = [op |-> "idle", lastFetchedAt |-> Absent, episodes |-> <<>>,
                      stale |-> FALSE, next |-> NULL]

InitSort ==
  /\ now = T0 /\ ticks = 0 /\ PureUnused /\ SortInit /\ CountdownIdle
  /\ RefreshIdle /\ RlIdle /\ AddIdle /\ ViewIdle
NextSort == SortEvaluate
SpecSort == InitSort /\ [][NextSort]_vars

InitImport ==
  /\ now = T0 /\ ticks = 0 /\ PureIdle /\ RefreshIdle /\ RlIdle
  /\ adds = [a \in AddIds |-> NotAdding]
  /\ currentView = "my-shows" /\ currentContentType = "tv" /\ currentPage = 1
  /\ edits = NoEdits /\ getGenre = NoGenreCalls
  /\ currentGenreFilter = StrNull /\ genreCache = "null"
  /\ lastLoad = NoLoad /\ generation = 0
  /\ ImportInit
NextImport ==
  \/ \E file \in Files : FileChosen(file)
  \/ \E k \in 1 .. MaxFiles : FileRead(k)
  \/ ImportCancel
  \/ \E merge \in BOOLEAN : ImportClick(merge)
  \/ \E k \in 1 .. MaxImports : ImportGot(k)
  \/ \E k \in 1 .. MaxImports : ImportSetDone(k)
  \/ \E k \in 1 .. MaxImports : MyShowsArrive(k)
SpecImport == InitImport /\ [][NextImport]_vars

InitCountdown ==
  /\ now \in {T0, T0 + 1} /\ ticks = 0 /\ PureUnused /\ SortIdle /\ CountdownInit
  /\ RefreshIdle /\ RlIdle /\ AddIdle /\ ViewIdle
NextCountdown == CountdownEvaluate
SpecCountdown == InitCountdown /\ [][NextCountdown]_vars

InitRefresh ==
  now = T0 /\ ticks = 0 /\ PureIdle /\ RefreshInit /\ RlIdle /\ AddIdle /\ ViewIdle
NextRefresh ==
  \/ AlarmFires
  \/ RefreshGet
  \/ RefreshFetchSettles
  \/ RefreshSetDone
  \/ RefreshTick
SpecRefresh == InitRefresh /\ [][NextRefresh]_vars

InitRl ==
  now = T0 /\ ticks = 0 /\ PureIdle /\ RefreshIdle /\ RlInit /\ AddIdle /\ ViewIdle
NextRl ==
  \/ \E c \in Calls : RlCall(c)
  \/ \E c \in Calls : RlTimerFires(c)
  \/ \E c \in Calls : RlSettles(c)
  \/ RlTick
SpecRl == InitRl /\ [][NextRl]_vars

InitAdd ==
  now = T0 /\ ticks = 0 /\ PureIdle /\ RefreshIdle /\ RlIdle /\ AddInit /\ ViewIdle
NextAdd ==
  \/ \E a \in AddIds : AddCall(a)
  \/ \E a \in AddIds : AddGot(a)
  \/ \E a \in AddIds : AddJikanSettles(a)
  \/ \E a \in AddIds : AddTvmazeSettles(a)
  \/ \E a \in AddIds : AddSetDone(a)
SpecAdd == InitAdd /\ [][NextAdd]_vars

InitView ==
  /\ now = T0 /\ ticks = 0 /\ PureIdle /\ RefreshIdle /\ RlIdle
  /\ adds = [a \in AddIds |-> NotAdding] /\ ViewInit /\ ImportIdle
NextView ==
  \/ \E view \in Views : SwitchView(view)
  \/ \E type \in ContentTypes : SetContentType(type)
  \/ \E genre \in GenreChips : SelectGenre(genre)
  \/ \E k \in 1 .. MaxSwitches + 1 : MyShowsArrive(k)
  \/ \E k \in 1 .. MaxSwitches + 1 : ListArrives(k)
  \/ \E k \in 1 .. MaxSwitches + 1 : LoadCompletes(k)
SpecView == InitView /\ [][NextView]_vars

(***************************************************************************)
(* Properties                                                              *)
(***************************************************************************)
Processed == 1 .. Len(rfLog)

FailedFetch(e) ==
  e.fetched /\ (e.resp.kind = "neterr" \/ (e.resp.kind = "http" /\ ~e.resp.ok))

SucceededFetch(e) == e.fetched /\ e.resp.kind = "http" /\ e.resp.ok

\* C2: a stale show whose episode re-fetch fails (fetch throws, or the
\* catalog answers non-2xx) is emitted with exactly its previous field
\* values.
C2_FailedFetchKeepsShow ==
  \A i \in Processed :
    FailedFetch(rfLog[i]) => rf.updated[i] = rf.shows[i]

\* C3: every emitted show has the priority, watchLink, watched and
\* watchedAt of the input show at the same position, and the collection
\* written to the store is the emitted one.
C3_UserFieldsPreserved ==
  /\ Len(rf.updated) = Len(rfLog)
  /\ \A i \in 1 .. Len(rf.updated) :
       /\ rf.updated[i].priority = rf.shows[i].priority
       /\ rf.updated[i].watchLink = rf.shows[i].watchLink
       /\ rf.updated[i].watched = rf.shows[i].watched
       /\ rf.updated[i].watchedAt = rf.shows[i].watchedAt
  /\ rf.pc = "set" => localShows = rf.updated

C3_Witness ==
  /\ rf.pc = "set"
  /\ \E i \in Processed :
       /\ SucceededFetch(rfLog[i])
       /\ rf.shows[i].priority /\ rf.shows[i].watched
       /\ rf.updated[i] # rf.shows[i]
  /\ \E i \in Processed : ~rfLog[i].fetched

\* C7: isFetchStale is true exactly when lastFetchedAt is absent or does
\* not parse, or when now - lastFetchedAt is strictly more than 24 hours.
C7_IsStaleExact ==
  pure.op = "isFetchStale" =>
    (pure.stale <=>
       \/ pure.lastFetchedAt.kind # "iso"
       \/ now - pure.lastFetchedAt.ms > ONE_DAY_MS)

C7_Witness ==
  /\ pure.op = "isFetchStale"
  /\ pure.lastFetchedAt = Iso(now - ONE_DAY_MS, 0)
  /\ ~pure.stale

\* the positions of the episodes whose airstamp parses to an instant
\* strictly after t
FutureEpisodes(episodes, t) ==
  { k \in 1 .. Len(episodes) :
      episodes[k].airstamp.kind = "iso" /\ episodes[k].airstamp.ms > t }

\* C8: computeNextEpisode returns null when no episode has a parsable
\* airstamp strictly after now; otherwise the season, number and airstamp
\* of the first episode in list order among those with the minimum such
\* airstamp.
C8_NextIsEarliestFuture ==
  pure.op = "computeNextEpisode" =>
    LET eps == pure.episodes
        Fut == FutureEpisodes(eps, now)
    IN IF Fut = {} THEN pure.next = NULL
       ELSE \E k \in Fut :
              /\ \A j \in Fut : eps[k].airstamp.ms <= eps[j].airstamp.ms
              /\ \A j \in Fut : j < k => eps[j].airstamp.ms > eps[k].airstamp.ms
              /\ pure.next = Some(Ep(eps[k].season, eps[k].number, eps[k].airstamp))
              /\ pure.next[1].airstamp.ms > now

C8_Witness ==
  /\ pure.op = "computeNextEpisode"
  /\ pure.next # NULL
  /\ \E j, k \in FutureEpisodes(pure.episodes, now) :
       /\ j < k
       /\ pure.episodes[j] # pure.episodes[k]
       /\ pure.episodes[j].airstamp.ms = pure.episodes[k].airstamp.ms
       /\ pure.next[1].airstamp.ms = pure.episodes[j].airstamp.ms
  /\ \E k \in 1 .. Len(pure.episodes) : pure.episodes[k].airstamp.kind = "garbage"

\* C9: a stale show whose re-fetch succeeds is emitted with nextEpisode =
\* computeNextEpisode of the fetched list, lastFetchedAt = the time of
\* that refresh, and every other field as in the input show.
C9_RefreshedFields ==
  \A i \in Processed :
    SucceededFetch(rfLog[i]) =>
      rf.updated[i] =
        [rf.shows[i] EXCEPT
           !.nextEpisode = computeNextEpisode(rfLog[i].resp.body, rfLog[i].at),
           !.allEpisodesLastFetchedAt = toISOString(rfLog[i].at)]

C9_Witness ==
  \E i \in Processed :
    /\ SucceededFetch(rfLog[i])
    /\ rfLog[i].resp.body # <<>>
    /\ rf.updated[i].nextEpisode # NULL
    /\ rf.updated[i].nextEpisode # rf.shows[i].nextEpisode
    /\ rf.updated[i].allEpisodesLastFetchedAt = toISOString(now)
    /\ now > T0

\* C10: for a show that is not stale when the loop reaches it, no episode
\* request is issued and the show is emitted with every field unchanged.
C10_FreshShowUntouched ==
  \A i \in Processed :
    ~isFetchStale(rf.shows[i].allEpisodesLastFetchedAt, rfLog[i].at) =>
      /\ rf.updated[i] = rf.shows[i]
      /\ ~rfLog[i].fetched
      /\ \A r \in 1 .. Len(requests) : requests[r].idx # i

C10_Witness ==
  /\ rf.pc = "set"
  /\ \E i, j \in Processed :
       /\ ~rfLog[i].fetched
       /\ rf.shows[i].nextEpisode # NULL
       /\ rfLog[j].fetched
  /\ Len(requests) = 1

\* C1: whatever the interleaving of the calls, no two requests are
\* dispatched less than the minimum interval (333 ms on the millisecond
\* clock) apart.
C1_MinSpacing ==
  \A i, j \in 1 .. Len(dispatched) :
    i < j => 3 * (dispatched[j].at - dispatched[i].at) >= MIN_REQUEST_INTERVAL_X3 - 1

\* C5: when two addShowFromSearch calls for two distinct ids that are not
\* yet tracked have both completed, the stored collection contains both
\* new shows.
C5_NoLostAdd ==
  \A a, b \in AddIds :
    ( /\ a # b
      /\ adds[a].pc = "done" /\ adds[a].wrote
      /\ adds[b].pc = "done" /\ adds[b].wrote
      /\ adds[a].summary.id # adds[b].summary.id )
    => /\ \E i \in 1 .. Len(syncShows) : syncShows[i].id = adds[a].summary.id
       /\ \E i \in 1 .. Len(syncShows) : syncShows[i].id = adds[b].summary.id

\* C4: a load that was started before the latest switch of view, content
\* type or genre never writes its result into the container: whenever a
\* result set or a final message is put on display, it comes from the
\* load that the latest switch started.
C4_StaleLoadNotApplied ==
  [][(container' # container /\ Len(loads') < Len(loads))
       => container'.gen = generation']_vars

\* a movie or an anime of the list for which the lookups find nothing
Unmatched(load, i) ==
  IF load.ctype = "anime"
  THEN ~load.up \/ \A tv \in TvCatalog :
                     tv.name.key \notin {load.items[i].name.key,
                                         load.items[i].nameEnglish.key}
  ELSE ~load.up \/ \A tv \in TvCatalog :
                     /\ (load.items[i].imdbId = "" \/ tv.imdb # load.items[i].imdbId)
                     /\ tv.name.key # load.items[i].name.key

\* the cards of the result set that were made from item i of the list
CardsOf(load, i) ==
  { j \in 1 .. Len(load.shows) :
      IF load.ctype = "anime" THEN load.shows[j].malId = load.items[i].malId
      ELSE load.shows[j].id = WdId(load.items[i].wikidataId) }

InFlight == {k \in 1 .. Len(requests) : requests[k].idx > Len(rfLog)}

\* C11: within one run of refreshAllShows the shows are processed one
\* after another in collection order: at most one episode request of the
\* batch is in flight, it is the request of the first show the loop is not
\* done with, and the requests were issued in ascending collection order.
C11_OneFetchAtATime ==
  /\ Cardinality(InFlight) <= 1
  /\ \A k \in InFlight : requests[k].idx = Len(rfLog) + 1 /\ rf.pc = "fetch"
  /\ \A k, l \in 1 .. Len(requests) : k < l => requests[k].idx < requests[l].idx

\* the request of the second show is in flight after the first one settled
C11_Witness ==
  /\ rf.pc = "fetch"
  /\ Len(requests) = 2
  /\ InFlight = {2}
  /\ rfLog[requests[1].idx].fetched

HasAirTime(show) ==
  show.nextEpisode # NULL /\ show.nextEpisode[1].airstamp.kind = "iso"

\* a sorts strictly before b in the given mode
SortsBefore(a, b, mode) ==
  IF mode = "alpha" THEN localeCompare(a.name, b.name) < 0
  ELSE /\ HasAirTime(a)
       /\ ~HasAirTime(b) \/ a.nextEpisode[1].airstamp.ms < b.nextEpisode[1].airstamp.ms

InputIndex(show) == CHOOSE k \in 1 .. Len(sorting.shows) : sorting.shows[k] = show

\* C13: within the pinned and within the non-pinned shows, sortShows in
\* mode soonest orders by ascending nextEpisode.airstamp with the shows
\* lacking an airstamp after those that have one, and in mode alpha by
\* name; shows that compare equal keep their input order.
C13_OrderedWithinPartitions ==
  (sorting.op = "sortShows" /\ sorting.mode \in {"alpha", "soonest"}) =>
    LET r == sorting.result IN
    /\ Len(r) = Len(sorting.shows)
    /\ \A i, j \in 1 .. Len(r) :
         (i < j /\ r[i].priority = r[j].priority) =>
           /\ ~SortsBefore(r[j], r[i], sorting.mode)
           /\ ~SortsBefore(r[i], r[j], sorting.mode) =>
                InputIndex(r[i]) < InputIndex(r[j])

\* the same, for the collections in which every airstamp that is present
\* is an instant
C13_OrderedWhenParsable ==
  (\A k \in 1 .. Len(sorting.shows) :
     sorting.shows[k].nextEpisode = NULL
       \/ sorting.shows[k].nextEpisode[1].airstamp.kind \in {"iso", "empty"})
    => C13_OrderedWithinPartitions

\* the evaluations the state holds
Evaluations ==
  IF countdown.op # "getCountdownInfo" THEN {}
  ELSE IF countdown.n = 1 THEN {countdown.last}
  ELSE {countdown.last, countdown.earlier}

\* C14: for every airstamp strictly after now, getCountdownInfo yields mode
\* upcoming, and days*86400 + hours*3600 + minutes*60 + seconds is the
\* whole number of seconds left, with days >= 0, hours below 24, minutes
\* and seconds below 60.
C14_ExactDecomposition ==
  \A e \in Evaluations :
    (e.airstamp.kind = "iso" /\ e.airstamp.ms > now) =>
      /\ e.info.mode = "upcoming"
      /\ e.info.units # NoUnits
      /\ LET u == e.info.units[1]
             total == u.days * 86400 + u.hours * 3600 + u.minutes * 60 + u.seconds
         IN /\ total * 1000 <= e.airstamp.ms - now
            /\ e.airstamp.ms - now < (total + 1) * 1000
            /\ u.days >= 0
            /\ u.hours >= 0 /\ u.hours < 24
            /\ u.minutes >= 0 /\ u.minutes < 60
            /\ u.seconds >= 0 /\ u.seconds < 60

\* one day, one hour, one minute and one second are left
C14_Witness ==
  /\ countdown.op = "getCountdownInfo"
  /\ countdown.last.airstamp = Iso(now + ONE_DAY_MS + 3661000, 0)
  /\ countdown.last.info.units = Units(1, 1, 1, 1)

\* C15: for every parsable airstamp at or before now, getCountdownInfo
\* yields mode past, label Released, progress 100 and all units 0.
C15_PastAtOrBeforeNow ==
  \A e \in Evaluations :
    (e.airstamp.kind = "iso" /\ e.airstamp.ms <= now) =>
      e.info = [mode |-> "past", label |-> "Released", progress |-> 100,
                units |-> Units(0, 0, 0, 0)]

\* the airstamp is the very instant of the evaluation
C15_Witness ==
  /\ countdown.op = "getCountdownInfo"
  /\ countdown.last.airstamp = Iso(now, 0)
  /\ countdown.last.info.mode = "past"

\* C16: for upcoming airstamps progress lies in 5 .. 100, is 5 when seven
\* days or more are left, is otherwise 5 or an integer nearest to
\* 100 - 100 * diffMs / 7 days, and of two evaluations the one with more
\* time left has no larger progress.
C16_ProgressClampedMonotone ==
  \A e \in Evaluations :
    (e.airstamp.kind = "iso" /\ e.airstamp.ms > now) =>
      LET diffMs == e.airstamp.ms - now
          onePercent == SEVEN_DAYS_MS \div 100
      IN /\ e.info.progress \in 5 .. 100
         /\ diffMs >= SEVEN_DAYS_MS => e.info.progress = 5
         /\ (diffMs < SEVEN_DAYS_MS /\ e.info.progress > 5) =>
              /\ (100 - e.info.progress) * onePercent <= diffMs + onePercent \div 2
              /\ diffMs  <= (100 - e.info.progress) * onePercent + onePercent \div 2
         /\ \A f \in Evaluations :
              (f.airstamp.kind = "iso" /\ f.airstamp.ms >= e.airstamp.ms) =>
                f.info.progress <= e.info.progress

\* two evaluations inside the seven days with different progress, after
\* one at exactly seven days
C16_Witness ==
  /\ countdown.op = "getCountdownInfo" /\ countdown.n = 2
  /\ countdown.earlier.airstamp = Iso(now + SEVEN_DAYS_MS, 0)
  /\ countdown.earlier.info.progress = 5
  /\ countdown.last.airstamp = Iso(now + 329616000, 0)
  /\ countdown.last.info.progress = 45

\* C17: an absent airstamp gives mode none, "No upcoming episodes" and
\* progress 100; a present airstamp that does not parse gives mode none,
\* "Unknown date" and progress 50; neither gives past or upcoming.
C17_NoneForAbsentOrUnparsable ==
  \A e \in Evaluations :
    /\ e.airstamp.kind \in {"absent", "empty"} =>
         /\ e.info.mode = "none" /\ e.info.label = "No upcoming episodes"
         /\ e.info.progress = 100
    /\ e.airstamp.kind = "garbage" =>
         /\ e.info.mode = "none" /\ e.info.label = "Unknown date"
         /\ e.info.progress = 50

\* an unparsable airstamp was evaluated after an absent one
C17_Witness ==
  /\ countdown.op = "getCountdownInfo" /\ countdown.n = 2
  /\ countdown.earlier.airstamp = Absent
  /\ countdown.earlier.info.label = "No upcoming episodes"
  /\ countdown.last.airstamp = Garbage
  /\ countdown.last.info.label = "Unknown date"

\* C18: a merge import stores the collection it read, unchanged and in
\* its order, followed by exactly the imported shows whose id no show of
\* that collection has, in file order; a show whose id exists is neither
\* replaced nor added again.
C18_MergeAppendsNewIds ==
  (importLog.wrote /\ importLog.merge) =>
    LET existing == importLog.existing
        imported == importLog.imported
        fresh == { i \in 1 .. Len(imported) :
                     \A j \in 1 .. Len(existing) : existing[j].id # imported[i].id }
    IN /\ Len(syncShows) = Len(existing) + Cardinality(fresh)
       /\ \A j \in 1 .. Len(existing) : syncShows[j] = existing[j]
       /\ \A i \in fresh :
            syncShows[Len(existing) + Cardinality({j \in fresh : j <= i})] = imported[i]

\* one stored show and a file of two shows, one with the same id: two
\* shows afterwards, the stored one as it was
C18_Witness ==
  /\ importLog.wrote /\ importLog.merge
  /\ importLog.existing = <<Kept1>>
  /\ importLog.imported = <<File1, File3>>
  /\ syncShows = <<Kept1, File3>>

\* the file does not parse, or its shows member is missing, is not an
\* array, or is an empty array
Rejectable(file) ==
  file.json # "object" \/ file.shows # "array" \/ file.list = <<>>

\* C19: a file whose shows member is missing, is not a sequence or is
\* empty is rejected: handling it leaves pendingImportData as it was, so
\* what is pending, and what an import writes, never comes from such a file.
C19_InvalidFileRejected ==
  /\ Rejectable(fileLog.file) => fileLog.after = fileLog.before
  /\ pendingImportData # NULL => pendingImportData[1].shows # <<>>
  /\ importLog.wrote => importLog.imported # <<>>

\* a file with an empty shows array was handled and nothing is pending
C19_Witness ==
  /\ fileLog.file = FileShows(<<>>)
  /\ importer.chosen = 1 /\ importer.reads = <<>>
  /\ pendingImportData = NULL

\* C20: a replace import stores exactly the imported sequence; no show
\* of the previous collection is left unless the file holds it too.
C20_ReplaceStoresImported ==
  (importLog.wrote /\ ~importLog.merge) =>
    /\ syncShows = importLog.imported
    /\ \A j \in 1 .. Len(importLog.existing) :
         (\E i \in 1 .. Len(syncShows) : syncShows[i] = importLog.existing[j])
           => \E i \in 1 .. Len(importLog.imported) :
                importLog.imported[i] = importLog.existing[j]

\* two stored shows were replaced by the two shows of the file, one of
\* them with the id of a stored show
C20_Witness ==
  /\ importLog.wrote /\ ~importLog.merge
  /\ importLog.existing = <<Kept1, Kept2>>
  /\ importLog.imported = <<File1, File3>>
  /\ syncShows = <<File1, File3>>

\* ---------------------------------------------------------------------------
\* C21: the ids of the shows of the tracked collection are pairwise distinct in
\* every state reached by the import operations (merge and replace) from a
\* collection whose ids are distinct.
C21_TrackedIdsDistinct == DistinctIds(syncShows)

\* ---------------------------------------------------------------------------
\* Movies: a browse view of the movie type, the add of one of its cards, and
\* the refresh of a stored collection that holds a movie
\* ---------------------------------------------------------------------------
\* a tracked movie as addShowFromSearch stored it at time last
MovieShow(n, last) ==
  StoredShow(WdId(n), Title("heat", "Heat"), ImgNull, Some(<<>>), StrNull, "", NULL,
             last, "movies", UserDefaults)

\* part_000 lines 1617-1626: the card hands its show to addShowFromSearch
\* (a stored show has no malId)
CardSummary(card) ==
  Summary(card.id, card.name, card.genres, card.status, card.summary, card.image,
          card.nextEpisode, card.contentType,
          IF "malId" \in DOMAIN card THEN card.malId ELSE 0)

\* a card of a browse view is clicked: addShowFromSearch(show) is called
AddFromCard(a) ==
  /\ adds[a].pc = "idle"
  /\ \A b \in AddIds : b < a => adds[b].pc # "idle"
  /\ currentView # "my-shows"
  /\ container.kind = "list"
  /\ \E i \in 1 .. Len(container.shows) :
       adds' = [adds EXCEPT ![a] = [NotAdding EXCEPT
                  !.pc = "get", !.summary = CardSummary(container.shows[i])]]
  /\ UNCHANGED <<now, ticks, syncShows, container>> /\ UNCHANGED outsideAdd

InitMovies ==
  /\ now = T0 /\ ticks = 0 /\ PureIdle /\ RlIdle /\ ImportIdle
  /\ currentView \in {"airing", "popular"} /\ currentContentType = "movies"
  /\ currentPage = 1
  /\ edits = NoEdits /\ getGenre = NoGenreCalls
  /\ currentGenreFilter = StrNull /\ genreCache = "null" /\ container = Empty
  /\ loads = <<Load(currentView, "movies", StrNull, 0)>>
  /\ lastLoad = NoLoad /\ generation = 0
  /\ AddIdle
  /\ localShows \in
       { << TrackedShow(TvId(1), Absent, NULL, UserDefaults), MovieShow(2, Iso(T0 - 2 * ONE_DAY_MS, 0)) >>,
         << MovieShow(1, Iso(T0 - ONE_DAY_MS, 0)),
            TrackedShow(TvId(2), Iso(T0, 0), Some(Ep(1, 3, Iso(T0 + 1000, 0))),
                        UserChoices) >> }
  /\ rf = IdleRf /\ rfLog = <<>> /\ requests = <<>> /\ alarmDue = T0
NextMovies ==
  \/ \E k \in 1 .. MaxSwitches + 1 : ListArrives(k)
  \/ \E k \in 1 .. MaxSwitches + 1 : LoadCompletes(k)
  \/ \E a \in AddIds : AddFromCard(a)
  \/ \E a \in AddIds : AddGot(a)
  \/ \E a \in AddIds : AddSetDone(a)
  \/ AlarmFires
  \/ RefreshGet
  \/ RefreshFetchSettles
  \/ RefreshSetDone
SpecMovies == InitMovies /\ [][NextMovies]_vars

MoviesNotEpisodic(shows) ==
  \A i \in 1 .. Len(shows) :
    shows[i].contentType = "movies" => shows[i].nextEpisode = NULL

PreferGenres(p, o) ==
  IF p # NULL /\ p # Some(<<>>) THEN p
  ELSE IF o # NULL /\ o # Some(<<>>) THEN o ELSE Some(<<>>)
PreferStr(p, o, d) == IF ~FalsyStr(p) THEN p ELSE IF ~FalsyStr(o) THEN o ELSE d
PreferImg(p, o) == IF ~FalsyImg(p) THEN p ELSE IF ~FalsyImg(o) THEN o ELSE ImgNull

\* the adds that merged the fragment of one catalog into the summary
JikanOnly(a) ==
  adds[a].pc \in {"tvmaze", "set", "done"} /\ adds[a].jikan # NULL /\ adds[a].info = NULL
TvmazeOnly(a) ==
  adds[a].pc \in {"set", "done"} /\ adds[a].jikan = NULL /\ adds[a].info # NULL

\* C23: when the details of one catalog (preferred) are merged with the
\* summary the user picked, each of genres, status, summary and image is the
\* preferred value if non-empty, else the summary's value if non-empty, else
\* the empty default.
C23_MergePrefersNonEmpty ==
  \A a \in AddIds :
    /\ JikanOnly(a) =>
         LET j == adds[a].jikan[1]
             s == adds[a].summary
             m == adds[a].m
         IN /\ m.genres = PreferGenres(j.genres, s.genres)
            /\ m.status = PreferStr(j.status, s.status, StrNull)
            /\ m.summary = PreferStr(j.synopsis, s.summary, "")
            /\ m.image = PreferImg(j.image, s.image)
    /\ TvmazeOnly(a) =>
         LET showInfo == adds[a].info[1]
             s == adds[a].summary
             m == adds[a].m
         IN /\ m.genres = PreferGenres(showInfo.genres, s.genres)
            /\ m.status = PreferStr(showInfo.status, s.status, StrNull)
            /\ m.summary = PreferStr(StripTags(showInfo.summary), s.summary, "")
            /\ m.image = PreferImg(IF showInfo.image.kind = "object"
                                   THEN MediumOrOriginal(showInfo.image)
                                   ELSE ImgNull, s.image)

\* ---------------------------------------------------------------------------
\* the merge expressions of addShowFromSearch (lines 2068-2133) with one show
\* standing for every fragment: the summary picked, the Jikan details and the
\* TVmaze record (a show has no synopsis member, and its image is a string
\* or null, never an object with medium / original)
SelfMerged(show) ==
  LET s == Summary(show.id, show.name, show.genres, show.status, show.summary,
                   show.image, show.nextEpisode, show.contentType, 0)
      viaJikan == WithJikan(AddStart(s),
                            JikanDetails(show.genres, show.status, StrUndef, show.image))
      viaTvmaze == WithTvmaze(viaJikan, Some(show), <<>>, now)
  IN NewShow(s, [viaTvmaze EXCEPT !.nextEpisode = show.nextEpisode,
                                  !.fetchedAt = show.allEpisodesLastFetchedAt])

\* the fields the merge decides
MergeFields(show) ==
  [id |-> show.id, name |-> show.name, contentType |-> show.contentType,
   genres |-> show.genres, status |-> show.status, summary |-> show.summary,
   image |-> show.image, nextEpisode |-> show.nextEpisode,
   allEpisodesLastFetchedAt |-> show.allEpisodesLastFetchedAt]

\* the user picks the next summary once the add before it has returned
AddCallAfterReturn(a) ==
  /\ \A b \in AddIds : adds[b].pc \in {"idle", "done"}
  /\ AddCall(a)

NextAddInTurn ==
  \/ \E a \in AddIds : AddCallAfterReturn(a)
  \/ \E a \in AddIds : AddGot(a)
  \/ \E a \in AddIds : AddJikanSettles(a)
  \/ \E a \in AddIds : AddTvmazeSettles(a)
  \/ \E a \in AddIds : AddSetDone(a)
SpecAddInTurn == InitAdd /\ [][NextAddInTurn]_vars

Candidates(ctype, item) ==
  IF ctype = "movies"
  THEN (IF item.imdbId # "" THEN << [by |-> "imdb", query |-> item.imdbId] >> ELSE <<>>)
       \o << [by |-> "title", query |-> item.name.form] >>
  ELSE LET english == IF item.nameEnglish.key = "" THEN item.name
                      ELSE item.nameEnglish
       IN << [by |-> "title", query |-> english.form] >>
          \o (IF item.name.form # english.form
              THEN << [by |-> "title", query |-> item.name.form] >> ELSE <<>>)

\* C25: for every anime or movie of a browse load the lookups issued are a
\* beginning of the fixed order (IMDb id, English title, original title if
\* different); every lookup but the last found nothing, and the matcher
\* stopped early only on a success.
C25_LookupsInOrderUntilSuccess ==
  lastLoad.ctype \in {"anime", "movies"} =>
    \A i \in 1 .. Len(lastLoad.items) :
      LET issued == lastLoad.lookups[i]
          order == Candidates(lastLoad.ctype, lastLoad.items[i])
      IN /\ Len(issued) \in 1 .. Len(order)
         /\ \A k \in 1 .. Len(issued) :
              /\ issued[k].by = order[k].by
              /\ issued[k].query = order[k].query
              /\ k < Len(issued) => issued[k].found = NULL
         /\ Len(issued) < Len(order) => issued[Len(issued)].found # NULL

\* a load of anime in which one item was found by its original title after
\* the English one found nothing, and another by neither
C25_Witness ==
  /\ lastLoad.ctype = "anime"
  /\ \E i, j \in 1 .. Len(lastLoad.items) :
       /\ Len(lastLoad.lookups[i]) = 2 /\ lastLoad.lookups[i][1].found = NULL
       /\ lastLoad.lookups[i][2].found # NULL
       /\ Len(lastLoad.lookups[j]) = 2 /\ lastLoad.lookups[j][2].found = NULL
       /\ lastLoad.up

\* ---------------------------------------------------------------------------
\* C26: the episode-list adapter never raises: whatever the request of a
\* refresh run ended in (network failure, non-2xx status, unreadable body),
\* fetchEpisodes returned a value.
C26_AdaptersNeverRaise ==
  \A i \in Processed :
    rfLog[i].fetched => ~fetchEpisodes(rfLog[i].resp).threw

\* ---------------------------------------------------------------------------
\* C27: a call that entered rateLimitedFetch after another one is never
\* dispatched before the release time the earlier call computed for itself.
C27_LaterNotBeforeEarlierRelease ==
  \A x, y \in Calls :
    (rl[x].pc # "idle" /\ x < y) =>
      \A k \in 1 .. Len(dispatched) :
        dispatched[k].call = y => dispatched[k].at >= rl[x].release

\* a call that had to wait is still asleep while a call that entered after
\* it has been dispatched, at or after the earlier call's release time
C27_Witness ==
  \E x, y \in Calls :
    /\ rl[x].pc = "waiting" /\ x < y
    /\ \E k \in 1 .. Len(dispatched) :
         dispatched[k].call = y /\ dispatched[k].at >= rl[x].release

\* ---------------------------------------------------------------------------
\* Paging: collections longer than a page, in the tracked view and in the
\* popular view
\* ---------------------------------------------------------------------------
\* tracked shows whose order of storage is not the order of their air times
PagedShow(i) ==
  SortedShow(TvId(i), Title("dark", "Dark"), Iso(T0 + 1000 * ((7 * i) % 37), 0),
             i % 6 = 0)
PagedCollection(n) == [i \in 1 .. n |-> PagedShow(i)]
PagedSizes == {ITEMS_PER_PAGE, ITEMS_PER_PAGE + 1, MaxItems}

\* part_000 line 1109: queryByGenre("Drama", ["movies"], 20) answers with
\* up to 20 movies
PagedMovies(n) == [i \in 1 .. n |-> MovieItem(i, Title("heat", "Heat"), "")]
PagedMovieAnswers == { PagedMovies(n) : n \in {ITEMS_PER_PAGE + 1} }

\* the movie list of a popular load arrives
PagedListArrives(k) ==
  /\ k \in 1 .. Len(loads)
  /\ loads[k].kind = "popular" /\ loads[k].ctype = "movies"
  /\ loads[k].pc = "list"
  /\ \E answer \in PagedMovieAnswers :
       loads' = [loads EXCEPT ![k].pc = "match", ![k].items = answer]
  /\ UNCHANGED <<currentView, currentContentType, currentGenreFilter, lastLoad,
                 generation, syncShows, now, ticks, genreCache, container>>
  /\ UNCHANGED outsideView

\* lines 1427-1430: the Load More button is clicked
LoadMoreClick ==
  /\ container.loadMore
  /\ currentPage < MaxPage
  /\ currentPage' = currentPage + 1
  /\ loads' = Append(loads, Load("my-shows", currentContentType, StrNull, generation))
  /\ UNCHANGED <<now, ticks, pureVars, refreshVars, rlVars, addVars, importVars,
                 currentView, currentContentType, currentGenreFilter, genreCache,
                 container, lastLoad, generation, editVars, genreIdVars>>

InitPage ==
  /\ now = T0 /\ ticks = 0 /\ PureIdle /\ RefreshIdle /\ RlIdle /\ ImportIdle
  /\ adds = [a \in AddIds |-> NotAdding]
  /\ currentView = "my-shows" /\ currentContentType = "movies" /\ currentPage = 1
  /\ edits = NoEdits /\ getGenre = NoGenreCalls
  /\ currentGenreFilter = StrNull /\ genreCache = "null" /\ container = Empty
  /\ loads = <<Load("my-shows", "movies", StrNull, 0)>>
  /\ lastLoad = NoLoad /\ generation = 0
  /\ syncShows \in { PagedCollection(n) : n \in PagedSizes }
NextPage ==
  \/ \E view \in {"my-shows", "popular"} : SwitchView(view)
  \/ \E k \in 1 .. MaxSwitches + MaxPage : MyShowsArrive(k)
  \/ \E k \in 1 .. MaxSwitches + MaxPage : PagedListArrives(k)
  \/ \E k \in 1 .. MaxSwitches + MaxPage : LoadCompletes(k)
  \/ LoadMoreClick
SpecPage == InitPage /\ [][NextPage]_vars

\* the collection in the order its cards are made
OrderedOf(c) ==
  IF c.renderedIn = "my-shows" THEN sortShows(c.shows, currentSortMode) ELSE c.shows

IsPrefix(p, q) == Len(p) <= Len(q) /\ \A i \in 1 .. Len(p) : p[i] = q[i]

FirstPagesShown ==
  container.kind = "list" =>
    LET ordered == OrderedOf(container)
        count == container.page * ITEMS_PER_PAGE
    IN /\ container.page >= 1
       /\ Len(container.cards) = (IF Len(ordered) < count THEN Len(ordered) ELSE count)
       /\ IsPrefix(container.cards, ordered)

RaisedPageExtends ==
  (/\ container.kind = "list" /\ container'.kind = "list"
   /\ container'.shows = container.shows
   /\ container'.renderedIn = container.renderedIn
   /\ container'.page > container.page)
  => IsPrefix(container.cards, container'.cards)

\* C28: the cards rendered are exactly the first page * 15 shows of the
\* ordered collection (all of them when there are fewer), and when the same
\* collection is rendered again at a higher page the cards shown before are
\* the beginning of the cards shown now.
C28_FirstPagesShownAndExtended == []FirstPagesShown /\ [][RaisedPageExtends]_vars

\* the largest tracked collection is displayed at page 2, after it was
\* displayed at page 1: more cards than a page holds, in another order than
\* the stored one
C28_Witness ==
  /\ container.kind = "list" /\ container.renderedIn = "my-shows"
  /\ container.page = 2 /\ Len(container.shows) = MaxItems
  /\ Len(container.cards) > ITEMS_PER_PAGE
  /\ container.cards # SubSeq(container.shows, 1, Len(container.cards))

\* C29: whenever a collection is rendered, the Load More button is there if
\* and only if the collection has more than page * 15 shows, in every view.
C29_LoadMoreIffMoreRemain ==
  container.kind = "list" =>
    (container.loadMore <=> Len(container.shows) > container.page * ITEMS_PER_PAGE)


\* ---------------------------------------------------------------------------
\* The two stored collections: the popup reads and writes the key "shows"
\* of chrome.storage.sync, refreshAllShows the key "shows" of
\* chrome.storage.local
\* ---------------------------------------------------------------------------
\* the user tracks one or two shows; storage.local, which only
\* refreshAllShows writes, is empty or holds a stale show left there earlier
InitShared ==
  /\ now = T0 /\ ticks = 0 /\ PureIdle /\ RlIdle /\ ImportIdle
  /\ adds = [a \in AddIds |-> NotAdding]
  /\ currentView = "my-shows" /\ currentContentType = "tv" /\ currentPage = 1
  /\ edits = NoEdits /\ getGenre = NoGenreCalls
  /\ currentGenreFilter = StrNull /\ genreCache = "null" /\ container = Empty
  /\ loads = <<Load("my-shows", "tv", StrNull, 0)>>
  /\ lastLoad = NoLoad /\ generation = 0
  /\ syncShows \in {c \in Collections(2) : Len(c) >= 1 /\ DistinctIds(c)}
  /\ localShows \in { <<>>, <<TrackedShow(TvId(1), Absent, NULL, UserDefaults)>> }
  /\ rf = IdleRf /\ rfLog = <<>> /\ requests = <<>> /\ alarmDue = T0
NextShared ==
  \/ AlarmFires
  \/ RefreshGet
  \/ RefreshFetchSettles
  \/ RefreshSetDone
  \/ RefreshTick
  \/ SwitchView("my-shows")
  \/ \E k \in 1 .. MaxSwitches + 1 : MyShowsArrive(k)
SpecShared == InitShared /\ [][NextShared]_vars

\* loading the user's shows finds every show of written with its
\* nextEpisode and its fetch time
ObservesRefreshed(loaded, written) ==
  \A i \in 1 .. Len(written) :
    \E j \in 1 .. Len(loaded) :
      /\ loaded[j].id = written[i].id
      /\ loaded[j].nextEpisode = written[i].nextEpisode
      /\ loaded[j].allEpisodesLastFetchedAt = written[i].allEpisodesLastFetchedAt

RefreshSharesTracked ==
  /\ (rf.pc = "get" /\ rf'.pc # "get") => localShows = syncShows
  /\ (rf.pc # "set" /\ rf'.pc = "set") => ObservesRefreshed(syncShows', rf'.updated)

\* C30: the collection a refresh run reads is the collection the user's
\* actions wrote, and once the run has written its result, the collection
\* the popup loads holds every show with the nextEpisode and the fetch time
\* the run wrote.
C30_RefreshSharesTracked == [][RefreshSharesTracked]_vars

\* ---------------------------------------------------------------------------
\* refreshAllShows: the shape of the written collection
\* ---------------------------------------------------------------------------

\* C38: the collection a refresh run builds has, position by position, the
\* ids of the collection it read, and the collection it writes has the
\* length of the collection it read.
C38_SameLengthSameIds ==
  /\ Len(rf.updated) <= Len(rf.shows)
  /\ \A i \in 1 .. Len(rf.updated) : rf.updated[i].id = rf.shows[i].id
  /\ rf.pc = "set" =>
       /\ Len(localShows) = Len(rf.shows)
       /\ \A i \in 1 .. Len(localShows) : localShows[i].id = rf.shows[i].id

\* a run over a full collection has written after it met a fresh show and
\* a failed fetch, or a failed and a successful fetch
C38_Witness ==
  /\ rf.pc = "set" /\ Len(rf.shows) = MaxShows
  /\ \E i \in Processed : FailedFetch(rfLog[i])
  /\ \E i \in Processed : ~rfLog[i].fetched \/ SucceededFetch(rfLog[i])
  /\ localShows # rf.shows

\* C35: in the run of the second firing, every show whose episodes were
\* fetched at or after the first firing (by the run of the first firing, or
\* just before it) is fetched again.
C35_RefetchedAtNextFiring ==
  alarmDue = T0 + 2 * ALARM_PERIOD_MS =>
    \A i \in Processed :
      LET last == rf.shows[i].allEpisodesLastFetchedAt
      IN (last.kind = "iso" /\ last.ms >= T0) => rfLog[i].fetched

\* C34: fetchPopularAnime never raises, so no popular load of anime ends
\* with the failure message in the container.
C34_PopularAnimeNeverFails ==
  ~(container.kind = "message" /\ container.text = "Failed to load popular shows.")

\* ---------------------------------------------------------------------------
\* jikanApi.js: getGenreId and the genre cache
\* ---------------------------------------------------------------------------
MaxGenreCalls == 3

\* the genre names asked for: one the genre list holds, one it does not
GenreNames == {"action", "nosuchgenre"}

\* line 174: genreCache[genreLower] || null
GenreIdIn(cache, genre) ==
  IF cache = "loaded" /\ genre = "action" THEN Some(1) ELSE NULL

\* lines 160-163 and 171-174: getGenreId(genre) is called; with the cache
\* filled it returns at once, otherwise it asks for the genre list
GetGenreIdCall(genre) ==
  /\ Len(getGenre.calls) < MaxGenreCalls
  /\ getGenre' =
       [getGenre EXCEPT !.calls =
          Append(@, [genre |-> genre,
                     pc |-> IF genreCache = "loaded" THEN "done" ELSE "fetch",
                     requested |-> genreCache # "loaded",
                     fillsAtCall |-> getGenre.fills,
                     result |-> GenreIdIn(genreCache, genre)])]
  /\ UNCHANGED <<now, ticks, pureVars, refreshVars, rlVars, addVars, viewVars,
                 importVars, pageVars, editVars>>

\* lines 162-174: the genre list request of call c settles; a good answer
\* fills the cache, and the id is looked up in whatever the cache is now
GenreListSettles(c, ok) ==
  /\ c \in 1 .. Len(getGenre.calls)
  /\ getGenre.calls[c].pc = "fetch"
  /\ LET cacheAfter == IF ok THEN "loaded" ELSE genreCache
     IN /\ genreCache' = cacheAfter
        /\ getGenre' =
             [getGenre EXCEPT !.fills = IF ok THEN @ + 1 ELSE @,
                              !.calls[c].pc = "done",
                              !.calls[c].result =
                                 GenreIdIn(cacheAfter, getGenre.calls[c].genre)]
  /\ UNCHANGED <<now, ticks, pureVars, refreshVars, rlVars, addVars, importVars,
                 pageVars, editVars, currentView, currentContentType,
                 currentGenreFilter, container, loads, lastLoad, generation>>

InitGenre ==
  now = T0 /\ ticks = 0 /\ PureIdle /\ RefreshIdle /\ RlIdle /\ AddIdle /\ ViewIdle
NextGenre ==
  \/ \E genre \in GenreNames : GetGenreIdCall(genre)
  \/ \E c \in 1 .. MaxGenreCalls, ok \in BOOLEAN : GenreListSettles(c, ok)
SpecGenre == InitGenre /\ [][NextGenre]_vars

\* C39: the cache is filled at most once; a call made after a fill asks
\* for no genre list; and while no request has succeeded the cache is
\* empty and every call that has returned returned null.
C39_CacheFilledOnce ==
  /\ getGenre.fills <= 1
  /\ \A c \in 1 .. Len(getGenre.calls) :
       getGenre.calls[c].fillsAtCall >= 1 => ~getGenre.calls[c].requested
  /\ getGenre.fills = 0 =>
       /\ genreCache = "null"
       /\ \A c \in 1 .. Len(getGenre.calls) :
            /\ getGenre.calls[c].requested
            /\ getGenre.calls[c].result = NULL

\* ---------------------------------------------------------------------------
\* popup: onRemoveShow and togglePriority
\* ---------------------------------------------------------------------------
MaxEdits == 2

\* the ids the user acts on: two that may be tracked and one that is not
EditIds == {TvId(1), TvId(2), TvId(3)}

NewEdit(op, id) ==
  [op |-> op, id |-> id, pc |-> "get", read |-> <<>>, updated |-> <<>>,
   wrote |-> FALSE, rfPc |-> ""]

\* a removal that takes out the first show with that id only
RemoveFrom_FirstOnly(shows, showId) ==
  IF \E i \in 1 .. Len(shows) : shows[i].id = showId
  THEN LET i == CHOOSE i \in 1 .. Len(shows) :
                  /\ shows[i].id = showId
                  /\ \A j \in 1 .. i - 1 : shows[j].id # showId
       IN SubSeq(shows, 1, i - 1) \o SubSeq(shows, i + 1, Len(shows))
  ELSE shows

\* line 2173: shows.filter((s) => s.id !== showId)
RemoveFrom(shows, showId) == SelectSeq(shows, LAMBDA s : s.id # showId)

\* line 426: shows.findIndex(s => s.id === showId), 0 for -1
FindIndex(shows, showId) ==
  IF \E i \in 1 .. Len(shows) : shows[i].id = showId
  THEN CHOOSE i \in 1 .. Len(shows) :
         /\ shows[i].id = showId
         /\ \A j \in 1 .. i - 1 : shows[j].id # showId
  ELSE 0

\* lines 1569 and 1516: the remove button or the pin button of a card is
\* clicked; the handler calls storage.sync.get
EditCall(op, id) ==
  /\ Len(edits) < MaxEdits
  /\ edits' = Append(edits, NewEdit(op, id))
  /\ UNCHANGED <<now, ticks, pureVars, refreshVars, rlVars, addVars, viewVars,
                 importVars, pageVars, genreIdVars>>

\* (rfPc notes where the refresh run stood when the handler wrote)
\* the storage serves the get: the handler will be resumed with the
\* collection as it is now
EditRead(k) ==
  /\ k \in 1 .. Len(edits)
  /\ edits[k].pc = "get"
  /\ edits' = [edits EXCEPT ![k].pc = "got", ![k].read = syncShows]
  /\ UNCHANGED <<now, ticks, pureVars, refreshVars, rlVars, addVars, viewVars,
                 importVars, pageVars, genreIdVars>>

\* lines 2171-2174 and 423-430: the handler resumes with the collection
\* read and calls storage.sync.set (togglePriority only for a tracked id)
EditGot(k) ==
  /\ k \in 1 .. Len(edits)
  /\ edits[k].pc = "got"
  /\ LET shows == edits[k].read
         showIndex == FindIndex(shows, edits[k].id)
     IN IF edits[k].op = "remove"
        THEN /\ syncShows' = RemoveFrom(shows, edits[k].id)
             /\ edits' = [edits EXCEPT ![k].pc = "set", ![k].wrote = TRUE,
                                       ![k].rfPc = rf.pc,
                                       ![k].updated = RemoveFrom(shows, edits[k].id)]
        ELSE IF showIndex # 0
        THEN /\ syncShows' = [shows EXCEPT ![showIndex].priority = ~@]
             /\ edits' = [edits EXCEPT ![k].pc = "set", ![k].wrote = TRUE,
                                       ![k].rfPc = rf.pc,
                                       ![k].updated = syncShows']
        ELSE /\ edits' = [edits EXCEPT ![k].pc = "done"]
             /\ UNCHANGED syncShows
  /\ UNCHANGED <<now, ticks, pureVars, refreshVars, rlVars, adds, viewVars,
                 importVars, pageVars, genreIdVars>>

\* lines 2176-2179 and 432-436: the set has resolved; onRemoveShow renders
\* the collection it wrote, togglePriority reloads in the tracked view
EditSetDone(k) ==
  /\ k \in 1 .. Len(edits)
  /\ edits[k].pc = "set"
  /\ edits' = [edits EXCEPT ![k].pc = "done"]
  /\ IF edits[k].op = "remove"
     THEN /\ container' = Rendered(edits[k].updated, generation, currentView)
          /\ UNCHANGED loads
     ELSE /\ loads' = IF currentView = "my-shows"
                      THEN Append(loads, Load("my-shows", currentContentType,
                                              StrNull, generation))
                      ELSE loads
          /\ UNCHANGED container
  /\ UNCHANGED <<now, ticks, pureVars, refreshVars, rlVars, addVars, importVars,
                 pageVars, genreIdVars, currentView, currentContentType,
                 currentGenreFilter, genreCache, lastLoad, generation>>

\* a collection in which two shows have the same id, as an import leaves it
TwiceTracked ==
  << TrackedShow(TvId(1), Absent, NULL, UserDefaults),
     TrackedShow(TvId(2), Iso(T0, 0), NULL, UserChoices),
     TrackedShow(TvId(1), Iso(T0, 0), NULL, UserChoices) >>

InitEdit ==
  /\ now = T0 /\ ticks = 0 /\ PureIdle /\ RefreshIdle /\ RlIdle /\ ImportIdle
  /\ adds = [a \in AddIds |-> NotAdding]
  /\ currentView = "my-shows" /\ currentContentType = "tv" /\ currentPage = 1
  /\ edits = NoEdits /\ getGenre = NoGenreCalls
  /\ currentGenreFilter = StrNull /\ genreCache = "null" /\ container = Empty
  /\ loads = <<>> /\ lastLoad = NoLoad /\ generation = 0
  /\ syncShows \in {TwiceTracked, SubSeq(TwiceTracked, 1, 2)}
NextEdit ==
  \/ \E op \in {"remove", "pin"}, id \in EditIds : EditCall(op, id)
  \/ \E k \in 1 .. MaxEdits : EditRead(k)
  \/ \E k \in 1 .. MaxEdits : EditGot(k)
  \/ \E k \in 1 .. MaxEdits : EditSetDone(k)
  \/ \E k \in 1 .. MaxEdits : MyShowsArrive(k)
SpecEdit == InitEdit /\ [][NextEdit]_vars

\* the positions of shows that hold another id than showId
Others(shows, showId) == { i \in 1 .. Len(shows) : shows[i].id # showId }

\* q consists of the shows of p at the positions in keep, in their order
KeepsInOrder(p, q, keep) ==
  /\ Len(q) = Cardinality(keep)
  /\ \A j \in 1 .. Len(q) :
       \E i \in keep : /\ Cardinality({h \in keep : h <= i}) = j
                       /\ q[j] = p[i]

RemoveWrites ==
  \A k \in 1 .. Len(edits) :
    (edits[k].op = "remove" /\ edits[k].pc = "got" /\ edits'[k].pc = "set") =>
      /\ KeepsInOrder(edits[k].read, syncShows', Others(edits[k].read, edits[k].id))
      /\ Others(edits[k].read, edits[k].id) = DOMAIN edits[k].read =>
           syncShows' = edits[k].read

\* C37: the collection onRemoveShow writes is the collection it read
\* without the shows of the removed id: every other show is there,
\* unchanged and in the same relative order, and when the id is not
\* tracked the collection written is the one read.
C37_RemoveDeletesExactlyThatId == [][RemoveWrites]_vars

\* a removal has taken two shows of the same id out of a collection and
\* left the third, and a removal of an untracked id has written too
C37_Witness ==
  /\ \E k \in 1 .. Len(edits) :
       /\ edits[k].op = "remove" /\ edits[k].wrote
       /\ Len(edits[k].read) = Len(edits[k].updated) + 2
       /\ Len(edits[k].updated) >= 1
  /\ \E k \in 1 .. Len(edits) :
       /\ edits[k].op = "remove" /\ edits[k].wrote /\ edits[k].id = TvId(3)
       /\ edits[k].read # <<>>

\* ---------------------------------------------------------------------------
\* A refresh run and the user's actions side by side
\* ---------------------------------------------------------------------------
\* the user tracks two shows in storage.sync and looks at the popular
\* view; storage.local is empty or holds a stale show, which makes the run
\* wait for a fetch between its read and its write
InitRefreshEdit ==
  /\ now = T0 /\ ticks = 0 /\ PureIdle /\ RlIdle /\ ImportIdle
  /\ adds = [a \in AddIds |-> NotAdding]
  /\ currentView = "popular" /\ currentContentType = "tv" /\ currentPage = 1
  /\ edits = NoEdits /\ getGenre = NoGenreCalls
  /\ currentGenreFilter = StrNull /\ genreCache = "null" /\ container = Empty
  /\ loads = <<>> /\ lastLoad = NoLoad /\ generation = 0
  /\ syncShows = SubSeq(TwiceTracked, 1, 2)
  /\ localShows \in { <<>>, SubSeq(TwiceTracked, 1, 1) }
  /\ rf = IdleRf /\ rfLog = <<>> /\ requests = <<>> /\ alarmDue = T0
NextRefreshEdit ==
  \/ AlarmFires
  \/ RefreshGet
  \/ RefreshFetchSettles
  \/ RefreshSetDone
  \/ EditCall("remove", TvId(1)) \/ EditCall("pin", TvId(2))
  \/ \E k \in 1 .. MaxEdits : EditRead(k)
  \/ \E k \in 1 .. MaxEdits : EditGot(k)
  \/ \E k \in 1 .. MaxEdits : EditSetDone(k)
SpecRefreshEdit == InitRefreshEdit /\ [][NextRefreshEdit]_vars

\* the ids of a collection and the fields the user owns, position by position
UserView(shows) ==
  [i \in 1 .. Len(shows) |->
     [id |-> shows[i].id, priority |-> shows[i].priority,
      watchLink |-> shows[i].watchLink, watched |-> shows[i].watched,
      watchedAt |-> shows[i].watchedAt]]

RefreshWriteKeepsUserActions ==
  (rf.pc # "set" /\ rf'.pc = "set") => UserView(syncShows') = UserView(syncShows)

\* C31: the final write of a refresh run leaves the membership and the
\* user-owned fields of the collection the user's actions committed to as
\* they were, whatever was committed since the run read its collection.
C31_RefreshWriteKeepsUserActions == [][RefreshWriteKeepsUserActions]_vars

\* a run has written after a pin and a removal were committed while it was
\* waiting for a fetch, and the user's collection is what the later of the
\* two wrote
C31_Witness ==
  /\ rf.pc = "set"
  /\ \E k \in 1 .. Len(edits) :
       edits[k].op = "pin" /\ edits[k].wrote /\ edits[k].rfPc = "fetch"
  /\ \E k \in 1 .. Len(edits) :
       /\ edits[k].op = "remove" /\ edits[k].wrote /\ edits[k].rfPc = "fetch"
       /\ edits[k].updated # edits[k].read
  /\ \E k \in 1 .. Len(edits) : syncShows = edits[k].updated
  /\ UserView(syncShows) # UserView(localShows)

\* jikanApi.js lines 7-8: the caller awaited the call before this one
RlCallAfterReturn(c) ==
  /\ \A b \in Calls : b < c => rl[b].pc = "done"
  /\ RlCall(c)

NextRlInTurn ==
  \/ \E c \in Calls : RlCallAfterReturn(c)
  \/ \E c \in Calls : RlTimerFires(c)
  \/ \E c \in Calls : RlSettles(c)
  \/ RlTick
SpecRlInTurn == InitRl /\ [][NextRlInTurn]_vars

\* the delay of a call that arrives at the instant of the last dispatch,
\* in whole milliseconds
FullDelay == MIN_REQUEST_INTERVAL_X3 \div 3

\* a sleeping call wakes minInterval (333 whole ms) after the last dispatch,
\* and lastRequestTime is the instant of the last dispatch whatever the
\* requests came to
WaitsAndRecords ==
  /\ \A c \in Calls : rl[c].pc = "waiting" =>
       rl[c].wake = lastRequestTime + FullDelay
  /\ dispatched # <<>> => lastRequestTime = dispatched[Len(dispatched)].at
  /\ \A k \in 1 .. Len(dispatched) : dispatched[k].call = k

\* C32: calls made one after the other: each waits until minInterval after
\* the last dispatch, the dispatch instant is recorded and stays recorded
\* whatever the result, and consecutive dispatches are at least 333 ms (the
\* whole milliseconds of minInterval) apart.
C32_InTurnSpacedByWholeMs ==
  /\ WaitsAndRecords
  /\ \A k \in 2 .. Len(dispatched) :
       dispatched[k].at - dispatched[k - 1].at >= FullDelay

\* C32 as stated: consecutive dispatches of calls made one after the other
\* are at least minInterval (1000 / 3 ms) apart.
C32_InTurnSpacedByMinInterval ==
  /\ WaitsAndRecords
  /\ \A k \in 2 .. Len(dispatched) :
       3 * (dispatched[k].at - dispatched[k - 1].at) >= MIN_REQUEST_INTERVAL_X3

\* three calls in turn: the second waited and went out exactly 333 ms after
\* the first, whose request had failed; the third came late enough not to
\* wait
C32_Witness ==
  /\ Len(dispatched) = 3
  /\ rl[1].result = "null" /\ rl[2].result = "data"
  /\ rl[2].release > 0
  /\ dispatched[2].at - dispatched[1].at = FullDelay
  /\ dispatched[3].at - dispatched[2].at > FullDelay
  /\ rl[3].release = dispatched[3].at

\* ---------------------------------------------------------------------------
\* the write of an add whose fetchShow and fetchEpisodes both answered, for a
\* summary of type tv: the collection stored before it, then one show more
AddsTvAfterBothFetches ==
  \A a \in AddIds :
    ( /\ adds[a].pc = "tvmaze" /\ adds'[a].pc = "set"
      /\ OrStr(adds[a].summary.contentType, "tv") = "tv"
      /\ adds'[a].info # NULL /\ adds'[a].episodes # NULL )
    => /\ Len(syncShows') = Len(syncShows) + 1
       /\ SubSeq(syncShows', 1, Len(syncShows)) = syncShows
       /\ \A i \in 1 .. Len(syncShows) : syncShows[i].id # adds[a].summary.id
       /\ LET newShow == syncShows'[Len(syncShows')]
          IN /\ newShow.id = adds[a].summary.id
             /\ newShow.nextEpisode = computeNextEpisode(adds'[a].episodes[1], now)
             /\ newShow.allEpisodesLastFetchedAt = toISOString(now)
             /\ newShow.watched = FALSE
             /\ newShow.watchedAt = Absent

ReturnsWhenTracked ==
  \A a \in AddIds :
    ( /\ adds[a].pc = "get"
      /\ \E i \in 1 .. Len(syncShows) : syncShows[i].id = adds[a].summary.id
      /\ adds'[a] # adds[a] )
    => /\ adds'[a].pc = "done" /\ ~adds'[a].wrote
       /\ adds'[a].jikan = NULL /\ adds'[a].info = NULL /\ adds'[a].episodes = NULL
       /\ syncShows' = syncShows

\* the collection after the add a
AfterAdd(a) ==
  IF adds[a].wrote THEN Append(adds[a].shows, NewShow(adds[a].summary, adds[a].m))
  ELSE adds[a].shows

\* two adds of one summary, one after the other, and none since
AddedTwice(a, b) ==
  /\ b = a + 1 /\ adds[a].pc = "done" /\ adds[b].pc = "done"
  /\ adds[a].summary = adds[b].summary
  /\ \A c \in AddIds : c > b => adds[c].pc = "idle"

\* C36: an add of a summary whose id is tracked writes nothing, leaves the
\* stored collection as it is (no second show of that id, no field of the
\* tracked show changed) and asks no catalog; two adds of the same summary in
\* turn leave the collection the first one left.
C36_AddOfTrackedIsNoOp ==
  /\ [][ReturnsWhenTracked]_vars
  /\ [](\A a, b \in AddIds :
          AddedTwice(a, b) => ~adds[b].wrote /\ syncShows = AfterAdd(a))

\* tv:2 was added with its TVmaze record and episodes, and added again
C36_Witness ==
  \E a, b \in AddIds :
    /\ AddedTwice(a, b) /\ adds[a].summary.id = TvId(2)
    /\ adds[a].wrote /\ adds[a].info # NULL /\ adds[a].episodes # NULL
    /\ ~adds[b].wrote /\ adds[b].shows = syncShows
    /\ Cardinality({ i \in 1 .. Len(syncShows) : syncShows[i].id = TvId(2) }) = 1

====
